---------------------------- MODULE Spec2Model ----------------------------
(***************************************************************************)
(* Personal-finance tracker: the API-backed finance store                  *)
(* (Frontend/src/hooks/useFinanceData.tsx), the UI handlers that call it   *)
(* (QuickAdd, TransactionLog, BudgetTracker, BudgetCategory, SavingsGoals) *)
(* and the localStorage-backed store (src/hooks/useFinanceData.tsx).       *)
(*                                                                         *)
(* Every async store operation is a record in `ops`.  A network round trip *)
(* is two steps: the backend answers the request (ServerAnswer) and later  *)
(* the awaiting function resumes with the answer; a request can instead    *)
(* fail (NetworkFail), which runs the operation's catch block.  The        *)
(* requests of one Promise.all are answered together.                      *)
(***************************************************************************)
EXTENDS Integers, Sequences, FiniteSets, TLC

VARIABLES
    \* FinanceProvider state (Frontend/src/hooks/useFinanceData.tsx:78-94)
    transactions, budgets, savingsGoals, loading, error, currentBudgetPeriod,
    totalIncome, totalExpenses, totalSavings, availableBalance,
    \* the backend behind the REST surface
    srvTransactions, srvBudgets, srvGoals, srvNextId,
    \* async store operations in flight, oldest first
    ops,
    \* component state and the notification emitted by the latest step
    toast, qaAmount, selectedGoal, isContributeDialogOpen,
    \* the real-time month, the user actions left, the operation settled by
    \* the latest step
    today, fuel, last,
    \* localStorage-backed store (src/hooks/useFinanceData.tsx:121), its clock
    data, now,
    \* history: the contributions SavingsGoals.handleContribute has accepted
    contributed

storeVars == <<transactions, budgets, savingsGoals, loading, error,
               currentBudgetPeriod, totalIncome, totalExpenses, totalSavings,
               availableBalance>>
srvVars == <<srvTransactions, srvBudgets, srvGoals, srvNextId>>
uiVars == <<toast, qaAmount, selectedGoal, isContributeDialogOpen>>
goalDialog == <<selectedGoal, isContributeDialogOpen>>
localVars == <<data, now>>
vars == <<storeVars, srvVars, ops, uiVars, today, fuel, last, localVars, contributed>>

-----------------------------------------------------------------------------
\* Bounds of the model

\* user actions (handler invocations) per behaviour, after the mount
MaxOps == 2

\* store calls per behaviour of the localStorage-backed store, and the
\* milliseconds its clock may advance
MaxLocalOps == 3
MaxTicks == 1

-----------------------------------------------------------------------------
\* Values

Null == "null"
NaN == [nan |-> TRUE, val |-> 0]
Num(n) == [nan |-> FALSE, val |-> n]

RECURSIVE SeqSum(_)
SeqSum(s) == IF s = <<>> THEN 0 ELSE Head(s) + SeqSum(Tail(s))

Amounts(s) == [i \in 1..Len(s) |-> s[i].amount]
Ids(s) == {s[i].id : i \in 1..Len(s)}
RemoveAt(s, i) == SubSeq(s, 1, i - 1) \o SubSeq(s, i + 1, Len(s))

NoToast == [title |-> "none", variant |-> "none"]
NoLast == [kind |-> "none"]
NoSnap == [none |-> TRUE]
NoResp == [none |-> TRUE]

\* the ten data fields of the snapshot the provider exposes
Snapshot ==
    [transactions |-> transactions, budgets |-> budgets,
     savingsGoals |-> savingsGoals, totalIncome |-> totalIncome,
     totalExpenses |-> totalExpenses, totalSavings |-> totalSavings,
     availableBalance |-> availableBalance]


-----------------------------------------------------------------------------
\* The backend (an external collaborator: modelled from the REST contract)

SamePeriod(b, p) == b.month = p.month /\ b.year = p.year

IsExpense(t) == t.type = "expense"
IsIncome(t) == t.type = "income"

\* spent of a budget: the expense transactions of its category in its period;
\* every transaction of the model is dated in the real-time month
SrvSpent(txs, b) ==
    IF SamePeriod(b, today)
    THEN SeqSum(Amounts(SelectSeq(txs, LAMBDA t: IsExpense(t) /\ t.category = b.category)))
    ELSE 0

\* GET /budgets/period/{year}/{month}
SrvBudgetsFor(bs, txs, p) ==
    LET sel == SelectSeq(bs, LAMBDA b: SamePeriod(b, p))
    IN  [i \in 1..Len(sel) |-> [sel[i] EXCEPT !.spent = SrvSpent(txs, sel[i])]]

\* GET /summary
SrvSummary(txs, goals) ==
    LET inc == SeqSum(Amounts(SelectSeq(txs, IsIncome)))
        exp == SeqSum(Amounts(SelectSeq(txs, IsExpense)))
        sav == SeqSum([i \in 1..Len(goals) |-> goals[i].currentAmount])
    IN  [totalIncome |-> inc, totalExpenses |-> exp, totalSavings |-> sav,
         availableBalance |-> inc - exp - sav]

SrvNextPeriod(p) ==
    IF p.month = 12 THEN [month |-> 1, year |-> p.year + 1]
    ELSE [month |-> p.month + 1, year |-> p.year]

\* POST /budgets/create-next-month: the recurring budgets of the real-time
\* month copied into the next month (spent 0), one per category not yet there
RECURSIVE SrvCopyRecurring(_, _, _, _)
SrvCopyRecurring(src, bs, made, nextId) ==
    IF src = <<>> THEN [bs |-> bs, made |-> made, nextId |-> nextId]
    ELSE LET b == Head(src)
             np == SrvNextPeriod(today)
             dup == \E i \in 1..Len(bs): SamePeriod(bs[i], np) /\ bs[i].category = b.category
             nb == [b EXCEPT !.id = nextId, !.spent = 0, !.month = np.month, !.year = np.year]
         IN  IF b.recurring /\ ~dup
             THEN SrvCopyRecurring(Tail(src), Append(bs, nb), Append(made, nb), nextId + 1)
             ELSE SrvCopyRecurring(Tail(src), bs, made, nextId)

\* a partial update merged into an entity
Merge(e, partial) ==
    [f \in DOMAIN e |-> IF f \in DOMAIN partial THEN partial[f] ELSE e[f]]

IndexOf(s, id) == CHOOSE i \in 1..Len(s): s[i].id = id

\* the transaction the backend books when a goal's balance changes by d
SrvGoalTransfer(txs, d, nextId) ==
    IF d > 0
    THEN <<[id |-> nextId, amount |-> d, category |-> "Savings", type |-> "expense"]>> \o txs
    ELSE IF d < 0
    THEN <<[id |-> nextId, amount |-> 0 - d, category |-> "Savings Transfer", type |-> "income"]>> \o txs
    ELSE txs

\* the request an operation has outstanding is one the backend can serve
SrvCanServe(o) ==
    IF o.phase # "sent1" THEN TRUE
    ELSE CASE o.kind = "deleteTransaction" -> o.arg.id \in Ids(srvTransactions)
           [] o.kind \in {"updateBudget", "deleteBudget"} -> o.arg.id \in Ids(srvBudgets)
           [] o.kind \in {"updateSavingsGoal", "deleteSavingsGoal"} -> o.arg.id \in Ids(srvGoals)
           [] OTHER -> TRUE

\* the backend's state after serving the outstanding request of o, and its
\* answer: [txs, bs, goals, nextId, resp]
SrvServe(o) ==
    LET same == [txs |-> srvTransactions, bs |-> srvBudgets, goals |-> srvGoals,
                 nextId |-> srvNextId, resp |-> NoResp]
        refreshBudgets == [same EXCEPT !.resp =
            [budgets |-> SrvBudgetsFor(srvBudgets, srvTransactions, o.period),
             summary |-> SrvSummary(srvTransactions, srvGoals)]]
        refreshTransactions == [same EXCEPT !.resp =
            [transactions |-> srvTransactions,
             summary |-> SrvSummary(srvTransactions, srvGoals)]]
    IN
    CASE o.kind = "load" ->
           [same EXCEPT !.resp =
              [transactions |-> srvTransactions,
               budgets |-> SrvBudgetsFor(srvBudgets, srvTransactions, o.period),
               savingsGoals |-> srvGoals,
               summary |-> SrvSummary(srvTransactions, srvGoals)]]
      [] o.kind = "addTransaction" /\ o.phase = "sent1" ->
           LET t == [id |-> srvNextId, amount |-> o.arg.amount,
                     category |-> o.arg.category, type |-> o.arg.type]
           IN  [same EXCEPT !.txs = <<t>> \o srvTransactions,
                            !.nextId = srvNextId + 1, !.resp = [entity |-> t]]
      [] o.kind = "deleteTransaction" /\ o.phase = "sent1" ->
           [same EXCEPT !.txs = SelectSeq(srvTransactions, LAMBDA t: t.id # o.arg.id)]
      [] o.kind \in {"addTransaction", "deleteTransaction"} /\ o.phase = "sent2" ->
           refreshBudgets
      [] o.kind = "addBudget" ->
           LET b0 == [id |-> srvNextId, category |-> o.arg.category,
                      amount |-> o.arg.amount, spent |-> 0, month |-> o.arg.month,
                      year |-> o.arg.year, recurring |-> o.arg.recurring]
               b == [b0 EXCEPT !.spent = SrvSpent(srvTransactions, b0)]
           IN  [same EXCEPT !.bs = Append(srvBudgets, b),
                            !.nextId = srvNextId + 1, !.resp = [entity |-> b]]
      [] o.kind = "updateBudget" ->
           LET i == IndexOf(srvBudgets, o.arg.id)
               b == Merge(srvBudgets[i], o.arg.data)
           IN  [same EXCEPT !.bs = [srvBudgets EXCEPT ![i] = b],
                            !.resp = [entity |-> [b EXCEPT !.spent = SrvSpent(srvTransactions, b)]]]
      [] o.kind = "deleteBudget" ->
           [same EXCEPT !.bs = SelectSeq(srvBudgets, LAMBDA b: b.id # o.arg.id)]
      [] o.kind = "createNextMonthBudgets" /\ o.phase = "sent1" ->
           LET r == SrvCopyRecurring(SelectSeq(srvBudgets, LAMBDA b: SamePeriod(b, today)),
                                     srvBudgets, <<>>, srvNextId)
           IN  [same EXCEPT !.bs = r.bs, !.nextId = r.nextId,
                            !.resp = [budgets |-> r.made]]
      [] o.kind = "createNextMonthBudgets" /\ o.phase = "sent2" ->
           [same EXCEPT !.resp =
              [budgets |-> SrvBudgetsFor(srvBudgets, srvTransactions, o.period)]]
      [] o.kind = "addSavingsGoal" ->
           LET g == [id |-> srvNextId, targetAmount |-> o.arg.targetAmount,
                     currentAmount |-> 0]
           IN  [same EXCEPT !.goals = Append(srvGoals, g),
                            !.nextId = srvNextId + 1, !.resp = [entity |-> g]]
      [] o.kind = "updateSavingsGoal" /\ o.phase = "sent1" ->
           LET i == IndexOf(srvGoals, o.arg.id)
               g == Merge(srvGoals[i], o.arg.data)
               d == g.currentAmount - srvGoals[i].currentAmount
           IN  [same EXCEPT !.goals = [srvGoals EXCEPT ![i] = g],
                            !.txs = SrvGoalTransfer(srvTransactions, d, srvNextId),
                            !.nextId = IF d # 0 THEN srvNextId + 1 ELSE srvNextId,
                            !.resp = [entity |-> g]]
      [] o.kind = "deleteSavingsGoal" /\ o.phase = "sent1" ->
           LET i == IndexOf(srvGoals, o.arg.id)
               c == srvGoals[i].currentAmount
           IN  [same EXCEPT !.goals = RemoveAt(srvGoals, i),
                            !.txs = SrvGoalTransfer(srvTransactions, 0 - c, srvNextId),
                            !.nextId = IF c # 0 THEN srvNextId + 1 ELSE srvNextId]
      [] o.kind \in {"updateSavingsGoal", "deleteSavingsGoal"} /\ o.phase = "sent2" ->
           refreshTransactions

-----------------------------------------------------------------------------
\* The functional updates the store hands to its setters

\* [...prev, newTransaction]: the new transaction at the tail
AppendTransaction(newTransaction, prev) == Append(prev, newTransaction)

\* [newTransaction, ...prev]
PrependTransaction(newTransaction, prev) == <<newTransaction>> \o prev

\* prev.filter(t => t.id === id): the filter inverted
KeepOnlyTransaction(prev, id) == SelectSeq(prev, LAMBDA t: t.id = id)

\* prev.filter(t => t.id !== id)
RemoveTransaction(prev, id) == SelectSeq(prev, LAMBDA t: t.id # id)

\* prev.filter(b => b.id !== id)
RemoveBudget(prev, id) == SelectSeq(prev, LAMBDA b: b.id # id)

\* prev.filter(g => g.id === id): the filter inverted
KeepOnlyGoal(prev, id) == SelectSeq(prev, LAMBDA g: g.id = id)

\* prev.filter(g => g.id !== id)
RemoveGoal(prev, id) == SelectSeq(prev, LAMBDA g: g.id # id)

\* prev.map(e => e.id === id ? updated : e)
ReplaceById(prev, id, updated) ==
    [k \in 1..Len(prev) |-> IF prev[k].id = id THEN updated ELSE prev[k]]

-----------------------------------------------------------------------------
\* Async plumbing of the store operations

\* a store operation at its first await: the period is the one its closure
\* captured; alone/pre record whether it ran with no other operation in
\* flight and the snapshot it started from
NewOp(kind, arg, caller, period) ==
    [kind |-> kind, phase |-> "sent1", arg |-> arg, period |-> period,
     resp1 |-> NoResp, resp2 |-> NoResp, caller |-> caller,
     alone |-> ops = <<>>, pre |-> IF ops = <<>> THEN Snapshot ELSE NoSnap]

Overlapped(os) == [i \in 1..Len(os) |-> [os[i] EXCEPT !.alone = FALSE, !.pre = NoSnap]]

LaunchFor(period, kind, arg, caller) ==
    ops' = Append(Overlapped(ops), NewOp(kind, arg, caller, period))

Launch(kind, arg, caller) == LaunchFor(currentBudgetPeriod, kind, arg, caller)

\* the backend answers the outstanding request(s) of operation i
ServerAnswer(i) ==
    LET o == ops[i]
        r == SrvServe(o)
    IN  /\ o.phase \in {"sent1", "sent2"}
        /\ SrvCanServe(o)
        /\ srvTransactions' = r.txs
        /\ srvBudgets' = r.bs
        /\ srvGoals' = r.goals
        /\ srvNextId' = r.nextId
        /\ ops' = [ops EXCEPT ![i] =
                     IF o.phase = "sent1"
                     THEN [o EXCEPT !.phase = "got1", !.resp1 = r.resp]
                     ELSE [o EXCEPT !.phase = "got2", !.resp2 = r.resp]]
        /\ toast' = NoToast
        /\ last' = NoLast
        /\ UNCHANGED <<storeVars, qaAmount, goalDialog, today, contributed, fuel, localVars>>

\* the message each catch block hands to handleApiError, after
\* `Failed to ${message.toLowerCase()}`
ErrorText(kind) ==
    CASE kind = "load" -> "Failed to load financial data"
      [] kind = "addTransaction" -> "Failed to add transaction"
      [] kind = "deleteTransaction" -> "Failed to delete transaction"
      [] kind = "addBudget" -> "Failed to add budget"
      [] kind = "updateBudget" -> "Failed to update budget"
      [] kind = "deleteBudget" -> "Failed to delete budget"
      [] kind = "createNextMonthBudgets" -> "Failed to create next month budgets"
      [] kind = "addSavingsGoal" -> "Failed to add savings goal"
      [] kind = "updateSavingsGoal" -> "Failed to update savings goal"
      [] kind = "deleteSavingsGoal" -> "Failed to delete savings goal"

\* a handler that ends loading but forgets setError
handleApiError_noSetError(text) ==
    /\ error' = error
    /\ loading' = FALSE

handleApiError(text) ==
    /\ error' = text
    /\ loading' = FALSE

\* how the promise of a failed operation settles: only createNextMonthBudgets
\* rethrows from its catch block
SettlesOnError(kind) ==
    IF kind = "createNextMonthBudgets" THEN "rejected" ELSE "resolved"

\* the code after `await <store operation>` in the handler that awaits it
CallerResumes(o, outcome) ==
    CASE o.caller = "QuickAdd.handleSubmit" ->
           IF outcome = "resolved"
           THEN /\ qaAmount' = ""
                /\ toast' = [title |-> IF o.arg.type = "income" THEN "Income added"
                                       ELSE "Expense added",
                             variant |-> "default"]
           ELSE /\ qaAmount' = qaAmount
                /\ toast' = [title |-> "Error", variant |-> "destructive"]
      [] o.caller = "TransactionLog.handleDelete" ->
           /\ qaAmount' = qaAmount
           /\ toast' = IF outcome = "resolved"
                       THEN [title |-> "Transaction deleted", variant |-> "default"]
                       ELSE [title |-> "Error", variant |-> "destructive"]
      [] o.caller = "BudgetTracker.handleCreateNextMonthBudgets" ->
           /\ qaAmount' = qaAmount
           /\ toast' = IF outcome = "resolved"
                       THEN [title |-> "Budgets created", variant |-> "default"]
                       ELSE [title |-> "Error", variant |-> "destructive"]
      [] OTHER ->
           /\ qaAmount' = qaAmount
           /\ toast' = NoToast

\* operation i leaves `ops`; `last` records how it settled
Settle(i, ok, outcome) ==
    LET o == ops[i]
    IN  /\ ops' = RemoveAt(ops, i)
        /\ last' = [kind |-> o.kind, ok |-> ok, phase |-> o.phase, arg |-> o.arg,
                    period |-> o.period, resp1 |-> o.resp1, resp2 |-> o.resp2,
                    alone |-> o.alone, pre |-> o.pre, outcome |-> outcome,
                    caller |-> o.caller]
        /\ CallerResumes(o, outcome)

\* a request of operation i fails (transport error or non-2xx): the await
\* throws into the operation's catch block
NetworkFail(i) ==
    LET o == ops[i]
    IN  /\ o.phase \in {"sent1", "sent2"}
        /\ handleApiError(ErrorText(o.kind))
        /\ Settle(i, FALSE, SettlesOnError(o.kind))
        /\ UNCHANGED <<transactions, budgets, savingsGoals, currentBudgetPeriod,
                       totalIncome, totalExpenses, totalSavings, availableBalance,
                       srvVars, goalDialog, today, contributed, fuel, localVars>>

\* a step that settles nothing and notifies nobody
Quiet == toast' = NoToast /\ last' = NoLast

\* a step that ran a validating UI handler: `last` keeps the handler and the
\* field values it was submitted with
Handled(handler, input) == last' = [kind |-> handler, input |-> input]

-----------------------------------------------------------------------------
\* fetchAllData and the effect that runs it

fetchAllData(period) ==
    /\ loading' = TRUE
    /\ error' = Null
    /\ LaunchFor(period, "load", [none |-> TRUE], "useEffect")

fetchAllData_resolved(i) ==
    LET o == ops[i]
        r == o.resp1
    IN  /\ o.kind = "load" /\ o.phase = "got1"
        /\ transactions' = r.transactions
        /\ budgets' = r.budgets
        /\ savingsGoals' = r.savingsGoals
        /\ totalIncome' = r.summary.totalIncome
        /\ totalExpenses' = r.summary.totalExpenses
        /\ totalSavings' = r.summary.totalSavings
        /\ availableBalance' = r.summary.availableBalance
        /\ loading' = FALSE
        /\ Settle(i, TRUE, "resolved")
        /\ UNCHANGED <<error, currentBudgetPeriod, srvVars, goalDialog, today, contributed,
                       fuel, localVars>>

-----------------------------------------------------------------------------
\* Transactions

addTransaction(transaction, caller) == Launch("addTransaction", transaction, caller)

\* after `await transactionsApi.create`: prepend, then request the refresh
addTransaction_created(i) ==
    LET o == ops[i]
    IN  /\ o.kind = "addTransaction" /\ o.phase = "got1"
        /\ transactions' = PrependTransaction(o.resp1.entity, transactions)
        /\ ops' = [ops EXCEPT ![i].phase = "sent2"]
        /\ Quiet
        /\ UNCHANGED <<budgets, savingsGoals, loading, error, currentBudgetPeriod,
                       totalIncome, totalExpenses, totalSavings, availableBalance,
                       srvVars, qaAmount, goalDialog, today, contributed, fuel, localVars>>

\* after the Promise.all of budgets-for-period and summary
TransactionRefreshed(i) ==
    LET o == ops[i]
        r == o.resp2
    IN  /\ budgets' = r.budgets
        /\ totalIncome' = r.summary.totalIncome
        /\ totalExpenses' = r.summary.totalExpenses
        /\ availableBalance' = r.summary.availableBalance
        /\ Settle(i, TRUE, "resolved")
        /\ UNCHANGED <<transactions, savingsGoals, loading, error,
                       currentBudgetPeriod, totalSavings, srvVars, goalDialog,
                       today, contributed, fuel, localVars>>

addTransaction_refreshed(i) ==
    /\ ops[i].kind = "addTransaction" /\ ops[i].phase = "got2"
    /\ TransactionRefreshed(i)

deleteTransaction(id, caller) == Launch("deleteTransaction", [id |-> id], caller)

deleteTransaction_deleted(i) ==
    LET o == ops[i]
    IN  /\ o.kind = "deleteTransaction" /\ o.phase = "got1"
        /\ transactions' = RemoveTransaction(transactions, o.arg.id)
        /\ ops' = [ops EXCEPT ![i].phase = "sent2"]
        /\ Quiet
        /\ UNCHANGED <<budgets, savingsGoals, loading, error, currentBudgetPeriod,
                       totalIncome, totalExpenses, totalSavings, availableBalance,
                       srvVars, qaAmount, goalDialog, today, contributed, fuel, localVars>>

deleteTransaction_refreshed(i) ==
    /\ ops[i].kind = "deleteTransaction" /\ ops[i].phase = "got2"
    /\ TransactionRefreshed(i)

-----------------------------------------------------------------------------
\* QuickAdd and TransactionLog

\* what the amount and description fields can hold
AmountInputs == {"", "abc", "0", "1", "2"}
DescriptionInputs == {"", "Coffee"}

parseFloat(s) ==
    CASE s = "0" -> Num(0)
      [] s = "1" -> Num(1)
      [] s = "2" -> Num(2)
      [] OTHER -> NaN

QuickAddCategories(type) ==
    IF type = "income" THEN {"Salary"} ELSE {"Food & Drinks", "Bills"}

\* the user has typed `amount`, picked type and category, and submits
QuickAdd_handleSubmit(amount, description, type, category) ==
    LET amountNum == parseFloat(amount)
    IN  /\ fuel > 0
        /\ fuel' = fuel - 1
        /\ qaAmount' = amount
        /\ Handled("QuickAdd.handleSubmit",
                   [amount |-> amount, description |-> description])
        /\ IF amount = "" \/ description = "" \/ category = ""
           THEN /\ toast' = [title |-> "Missing information", variant |-> "destructive"]
                /\ UNCHANGED ops
           ELSE IF amountNum.nan \/ amountNum.val <= 0
           THEN /\ toast' = [title |-> "Invalid amount", variant |-> "destructive"]
                /\ UNCHANGED ops
           ELSE /\ toast' = NoToast
                /\ addTransaction([amount |-> amountNum.val, category |-> category,
                                   type |-> type], "QuickAdd.handleSubmit")
        /\ UNCHANGED <<storeVars, srvVars, goalDialog, today, contributed, localVars>>

TransactionLog_handleDelete(id) ==
    /\ fuel > 0
    /\ fuel' = fuel - 1
    /\ deleteTransaction(id, "TransactionLog.handleDelete")
    /\ Quiet
    /\ UNCHANGED <<storeVars, srvVars, qaAmount, goalDialog, today, contributed, localVars>>

-----------------------------------------------------------------------------
\* Budgets

\* String(n).padStart(targetLength, padString) for a one-character padString
RECURSIVE padStart(_, _, _)
padStart(str, targetLength, padString) ==
    IF Len(str) >= targetLength THEN str
    ELSE padStart(padString \o str, targetLength, padString)

periodStr_unpadded(budget) ==
    ToString(budget.year) \o "-" \o ToString(budget.month)

\* const periodStr = `${budget.year}-${String(budget.month).padStart(2, '0')}`
periodStr(budget) ==
    ToString(budget.year) \o "-" \o padStart(ToString(budget.month), 2, "0")

\* budgetWithPeriod = { ...budget, period: periodStr } goes to budgetsApi.create
addBudget(budget) ==
    Launch("addBudget", [period |-> periodStr(budget)] @@ budget, "none")

addBudget_created(i) ==
    LET o == ops[i]
    IN  /\ o.kind = "addBudget" /\ o.phase = "got1"
        /\ budgets' = Append(budgets, o.resp1.entity)
        /\ Settle(i, TRUE, "resolved")
        /\ UNCHANGED <<transactions, savingsGoals, loading, error, currentBudgetPeriod,
                       totalIncome, totalExpenses, totalSavings, availableBalance,
                       srvVars, goalDialog, today, contributed, fuel, localVars>>

updateBudget(id, budgetData) ==
    Launch("updateBudget", [id |-> id, data |-> budgetData], "none")

updateBudget_updated(i) ==
    LET o == ops[i]
    IN  /\ o.kind = "updateBudget" /\ o.phase = "got1"
        /\ budgets' = ReplaceById(budgets, o.arg.id, o.resp1.entity)
        /\ Settle(i, TRUE, "resolved")
        /\ UNCHANGED <<transactions, savingsGoals, loading, error, currentBudgetPeriod,
                       totalIncome, totalExpenses, totalSavings, availableBalance,
                       srvVars, goalDialog, today, contributed, fuel, localVars>>

deleteBudget(id) == Launch("deleteBudget", [id |-> id], "none")

deleteBudget_deleted(i) ==
    LET o == ops[i]
    IN  /\ o.kind = "deleteBudget" /\ o.phase = "got1"
        /\ budgets' = RemoveBudget(budgets, o.arg.id)
        /\ Settle(i, TRUE, "resolved")
        /\ UNCHANGED <<transactions, savingsGoals, loading, error, currentBudgetPeriod,
                       totalIncome, totalExpenses, totalSavings, availableBalance,
                       srvVars, goalDialog, today, contributed, fuel, localVars>>

createNextMonthBudgets(caller) ==
    Launch("createNextMonthBudgets", [none |-> TRUE], caller)

\* the computation taking getMonth() for a month number in 1..12
NextMonthOf_oneBased(t) == IF t.month + 2 > 12 THEN 1 ELSE t.month + 2

\* today.getMonth() is zero-based
NextMonthOf(t) == IF (t.month - 1) + 2 > 12 THEN 1 ELSE (t.month - 1) + 2
NextYearOf(t) == IF NextMonthOf(t) = 1 THEN t.year + 1 ELSE t.year

\* after `await budgetsApi.createNextMonth()`
createNextMonthBudgets_created(i) ==
    LET o == ops[i]
        nextMonth == NextMonthOf(today)
        nextYear == NextYearOf(today)
    IN  /\ o.kind = "createNextMonthBudgets" /\ o.phase = "got1"
        /\ IF o.period.month = nextMonth /\ o.period.year = nextYear
           THEN /\ ops' = [ops EXCEPT ![i].phase = "sent2",
                                      ![i].period = [month |-> nextMonth, year |-> nextYear]]
                /\ Quiet
                /\ UNCHANGED qaAmount
           ELSE Settle(i, TRUE, "resolved")
        /\ UNCHANGED <<storeVars, srvVars, goalDialog, today, contributed, fuel, localVars>>

createNextMonthBudgets_refreshed(i) ==
    LET o == ops[i]
    IN  /\ o.kind = "createNextMonthBudgets" /\ o.phase = "got2"
        /\ budgets' = o.resp2.budgets
        /\ Settle(i, TRUE, "resolved")
        /\ UNCHANGED <<transactions, savingsGoals, loading, error, currentBudgetPeriod,
                       totalIncome, totalExpenses, totalSavings, availableBalance,
                       srvVars, goalDialog, today, contributed, fuel, localVars>>

-----------------------------------------------------------------------------
\* BudgetTracker and BudgetCategory

BudgetCategories == {"Food & Drinks", "Bills"}
BudgetAmountInputs == {"abc", "0", "1"}

\* setCurrentBudgetPeriod, the re-render and the effect on the new period
ChangePeriod(p) ==
    /\ fuel > 0
    /\ fuel' = fuel - 1
    /\ currentBudgetPeriod' = p
    /\ fetchAllData(p)
    /\ Quiet
    /\ UNCHANGED <<transactions, budgets, savingsGoals, totalIncome, totalExpenses,
                   totalSavings, availableBalance, srvVars, qaAmount, goalDialog,
                   today, contributed, localVars>>

goToPreviousMonth ==
    LET prevMonth == IF currentBudgetPeriod.month = 1 THEN 12
                     ELSE currentBudgetPeriod.month - 1
        prevYear == IF currentBudgetPeriod.month = 1 THEN currentBudgetPeriod.year - 1
                    ELSE currentBudgetPeriod.year
    IN  ChangePeriod([month |-> prevMonth, year |-> prevYear])

goToNextMonth ==
    LET nextMonth == IF currentBudgetPeriod.month = 12 THEN 1
                     ELSE currentBudgetPeriod.month + 1
        nextYear == IF currentBudgetPeriod.month = 12 THEN currentBudgetPeriod.year + 1
                    ELSE currentBudgetPeriod.year
    IN  ChangePeriod([month |-> nextMonth, year |-> nextYear])

goToCurrentMonth == ChangePeriod([month |-> today.month, year |-> today.year])

BudgetTracker_handleCreateNextMonthBudgets ==
    /\ fuel > 0
    /\ fuel' = fuel - 1
    /\ createNextMonthBudgets("BudgetTracker.handleCreateNextMonthBudgets")
    /\ Quiet
    /\ UNCHANGED <<storeVars, srvVars, qaAmount, goalDialog, today, contributed, localVars>>

BudgetTracker_handleAddBudget(newCategory, newAmount, isRecurring) ==
    LET amount == parseFloat(newAmount)
    IN  /\ fuel > 0
        /\ fuel' = fuel - 1
        /\ Handled("BudgetTracker.handleAddBudget",
                   [category |-> newCategory, amount |-> newAmount])
        /\ IF \E k \in 1..Len(budgets): budgets[k].category = newCategory
           THEN /\ toast' = [title |-> "Category already exists", variant |-> "destructive"]
                /\ UNCHANGED ops
           ELSE IF amount.nan \/ amount.val <= 0
           THEN /\ toast' = [title |-> "Invalid input", variant |-> "destructive"]
                /\ UNCHANGED ops
           ELSE /\ addBudget([category |-> newCategory, amount |-> amount.val,
                              month |-> currentBudgetPeriod.month,
                              year |-> currentBudgetPeriod.year,
                              recurring |-> isRecurring])
                /\ toast' = [title |-> "Budget created", variant |-> "default"]
        /\ UNCHANGED <<storeVars, srvVars, qaAmount, goalDialog, today, contributed, localVars>>

\* the handler testing only isNaN(newAmount), not newAmount <= 0
BudgetCategory_handleUpdateBudget_nanOnly(budget, editAmount) ==
    LET newAmount == parseFloat(editAmount)
    IN  /\ fuel > 0
        /\ fuel' = fuel - 1
        /\ Handled("BudgetCategory.handleUpdateBudget", [amount |-> editAmount])
        /\ IF newAmount.nan
           THEN /\ toast' = [title |-> "Invalid amount", variant |-> "destructive"]
                /\ UNCHANGED ops
           ELSE /\ ops' = Append(Overlapped(ops),
                               NewOp("updateBudget",
                                     [id |-> budget.id, data |-> [amount |-> newAmount.val]],
                                     "none", currentBudgetPeriod))
                /\ toast' = [title |-> "Budget updated", variant |-> "default"]
        /\ UNCHANGED <<storeVars, srvVars, qaAmount, goalDialog, today, contributed, localVars>>

BudgetCategory_handleUpdateBudget(budget, editAmount) ==
    LET newAmount == parseFloat(editAmount)
    IN  /\ fuel > 0
        /\ fuel' = fuel - 1
        /\ Handled("BudgetCategory.handleUpdateBudget", [amount |-> editAmount])
        /\ IF newAmount.nan \/ newAmount.val <= 0
           THEN /\ toast' = [title |-> "Invalid amount", variant |-> "destructive"]
                /\ UNCHANGED ops
           ELSE /\ updateBudget(budget.id, [amount |-> newAmount.val])
                /\ toast' = [title |-> "Budget updated", variant |-> "default"]
        /\ UNCHANGED <<storeVars, srvVars, qaAmount, goalDialog, today, contributed, localVars>>

BudgetCategory_handleDeleteBudget(budget) ==
    /\ fuel > 0
    /\ fuel' = fuel - 1
    /\ last' = NoLast
    /\ deleteBudget(budget.id)
    /\ toast' = [title |-> "Budget deleted", variant |-> "default"]
    /\ UNCHANGED <<storeVars, srvVars, qaAmount, goalDialog, today, contributed, localVars>>

-----------------------------------------------------------------------------
\* Savings goals

addSavingsGoal(goal) == Launch("addSavingsGoal", goal, "none")

addSavingsGoal_created(i) ==
    LET o == ops[i]
    IN  /\ o.kind = "addSavingsGoal" /\ o.phase = "got1"
        /\ savingsGoals' = Append(savingsGoals, o.resp1.entity)
        /\ Settle(i, TRUE, "resolved")
        /\ UNCHANGED <<transactions, budgets, loading, error, currentBudgetPeriod,
                       totalIncome, totalExpenses, totalSavings, availableBalance,
                       srvVars, goalDialog, today, contributed, fuel, localVars>>

updateSavingsGoal(id, goalData) ==
    Launch("updateSavingsGoal", [id |-> id, data |-> goalData], "none")

\* `if (goalData.currentAmount)`: present and truthy
ContributionGiven(goalData) ==
    "currentAmount" \in DOMAIN goalData /\ goalData.currentAmount # 0

updateSavingsGoal_updated(i) ==
    LET o == ops[i]
    IN  /\ o.kind = "updateSavingsGoal" /\ o.phase = "got1"
        /\ savingsGoals' = ReplaceById(savingsGoals, o.arg.id, o.resp1.entity)
        /\ IF ContributionGiven(o.arg.data)
           THEN /\ ops' = [ops EXCEPT ![i].phase = "sent2"]
                /\ Quiet
                /\ UNCHANGED qaAmount
           ELSE Settle(i, TRUE, "resolved")
        /\ UNCHANGED <<transactions, budgets, loading, error, currentBudgetPeriod,
                       totalIncome, totalExpenses, totalSavings, availableBalance,
                       srvVars, goalDialog, today, contributed, fuel, localVars>>

updateSavingsGoal_refreshed(i) ==
    LET o == ops[i]
        r == o.resp2
    IN  /\ o.kind = "updateSavingsGoal" /\ o.phase = "got2"
        /\ transactions' = r.transactions
        /\ totalExpenses' = r.summary.totalExpenses
        /\ totalSavings' = r.summary.totalSavings
        /\ availableBalance' = r.summary.availableBalance
        /\ Settle(i, TRUE, "resolved")
        /\ UNCHANGED <<budgets, savingsGoals, loading, error, currentBudgetPeriod,
                       totalIncome, srvVars, goalDialog, today, contributed, fuel, localVars>>

deleteSavingsGoal(id) == Launch("deleteSavingsGoal", [id |-> id], "none")

deleteSavingsGoal_deleted(i) ==
    LET o == ops[i]
    IN  /\ o.kind = "deleteSavingsGoal" /\ o.phase = "got1"
        /\ savingsGoals' = RemoveGoal(savingsGoals, o.arg.id)
        /\ ops' = [ops EXCEPT ![i].phase = "sent2"]
        /\ Quiet
        /\ UNCHANGED <<transactions, budgets, loading, error, currentBudgetPeriod,
                       totalIncome, totalExpenses, totalSavings, availableBalance,
                       srvVars, qaAmount, goalDialog, today, contributed, fuel, localVars>>

deleteSavingsGoal_refreshed(i) ==
    LET o == ops[i]
        r == o.resp2
    IN  /\ o.kind = "deleteSavingsGoal" /\ o.phase = "got2"
        /\ transactions' = r.transactions
        /\ totalIncome' = r.summary.totalIncome
        /\ totalSavings' = r.summary.totalSavings
        /\ availableBalance' = r.summary.availableBalance
        /\ Settle(i, TRUE, "resolved")
        /\ UNCHANGED <<budgets, savingsGoals, loading, error, currentBudgetPeriod,
                       totalExpenses, srvVars, goalDialog, today, contributed, fuel, localVars>>

-----------------------------------------------------------------------------
\* SavingsGoals component

NoGoal == [id |-> 0, targetAmount |-> 0, currentAmount |-> 0]
GoalNameInputs == {"", "Trip"}
GoalAmountInputs == {"0", "2"}
ContributionInputs == {"abc", "0", "1", "2"}

SavingsGoals_handleAddGoal(newGoalName, newGoalAmount) ==
    LET targetAmount == parseFloat(newGoalAmount)
    IN  /\ fuel > 0
        /\ fuel' = fuel - 1
        /\ Handled("SavingsGoals.handleAddGoal",
                   [name |-> newGoalName, amount |-> newGoalAmount])
        /\ IF newGoalName = "" \/ targetAmount.nan \/ targetAmount.val <= 0
           THEN /\ toast' = [title |-> "Invalid input", variant |-> "destructive"]
                /\ UNCHANGED ops
           ELSE /\ addSavingsGoal([targetAmount |-> targetAmount.val])
                /\ toast' = [title |-> "Savings goal created", variant |-> "default"]
        /\ UNCHANGED <<storeVars, srvVars, qaAmount, goalDialog, today, contributed, localVars>>

SavingsGoals_handleOpenContribute(goal) ==
    /\ ~isContributeDialogOpen
    /\ selectedGoal' = goal
    /\ isContributeDialogOpen' = TRUE
    /\ Quiet
    /\ UNCHANGED <<storeVars, srvVars, ops, qaAmount, today, contributed, fuel, localVars>>

\* the handler without its `amount > availableBalance` test
SavingsGoals_handleContribute_noBalanceCheck(contributionAmount) ==
    LET amount == parseFloat(contributionAmount)
    IN  /\ isContributeDialogOpen
        /\ fuel > 0
        /\ fuel' = fuel - 1
        /\ Handled("SavingsGoals.handleContribute", [amount |-> contributionAmount])
        /\ IF amount.nan \/ amount.val <= 0
           THEN /\ toast' = [title |-> "Invalid amount", variant |-> "destructive"]
                /\ UNCHANGED <<ops, isContributeDialogOpen>>
           ELSE /\ ops' = Append(Overlapped(ops),
                               NewOp("updateSavingsGoal",
                                     [id |-> selectedGoal.id,
                                      data |-> [currentAmount |->
                                                  selectedGoal.currentAmount + amount.val]],
                                     "none", currentBudgetPeriod))
                /\ isContributeDialogOpen' = FALSE
                /\ toast' = [title |-> "Contribution added", variant |-> "default"]
        /\ UNCHANGED <<storeVars, srvVars, qaAmount, selectedGoal, today, localVars>>

SavingsGoals_handleContribute(contributionAmount) ==
    LET amount == parseFloat(contributionAmount)
    IN  /\ isContributeDialogOpen
        /\ fuel > 0
        /\ fuel' = fuel - 1
        /\ Handled("SavingsGoals.handleContribute", [amount |-> contributionAmount])
        /\ IF amount.nan \/ amount.val <= 0
           THEN /\ toast' = [title |-> "Invalid amount", variant |-> "destructive"]
                /\ UNCHANGED <<ops, isContributeDialogOpen>>
           ELSE IF amount.val > availableBalance
           THEN /\ toast' = [title |-> "Insufficient balance", variant |-> "destructive"]
                /\ UNCHANGED <<ops, isContributeDialogOpen>>
           ELSE /\ updateSavingsGoal(selectedGoal.id,
                       [currentAmount |-> selectedGoal.currentAmount + amount.val])
                /\ isContributeDialogOpen' = FALSE
                /\ toast' = [title |-> "Contribution added", variant |-> "default"]
        /\ UNCHANGED <<storeVars, srvVars, qaAmount, selectedGoal, today, localVars>>

\* handleOpenDelete(goal) followed by the dialog's confirm button
SavingsGoals_handleDeleteGoal(goalToDelete) ==
    /\ fuel > 0
    /\ fuel' = fuel - 1
    /\ last' = NoLast
    /\ deleteSavingsGoal(goalToDelete.id)
    /\ toast' = [title |-> "Savings goal deleted", variant |-> "default"]
    /\ UNCHANGED <<storeVars, srvVars, qaAmount, goalDialog, today, contributed, localVars>>

-----------------------------------------------------------------------------
\* Other consumers of the context calling the store directly

GoalPartials == {[currentAmount |-> 0], [targetAmount |-> 3]}

DirectCall ==
    /\ fuel > 0
    /\ fuel' = fuel - 1
    /\ Quiet
    /\ \/ \E id \in 1..srvNextId: deleteTransaction(id, "none")
       \/ \E k \in 1..Len(savingsGoals): \E goalData \in GoalPartials:
              updateSavingsGoal(savingsGoals[k].id, goalData)
    /\ UNCHANGED <<storeVars, srvVars, qaAmount, goalDialog, today, contributed, localVars>>

-----------------------------------------------------------------------------
\* The API-backed application

Dec2024 == [month |-> 12, year |-> 2024]
Nov2024 == [month |-> 11, year |-> 2024]

\* the real-time months a behaviour can run in: one whose next month is in
\* the same year, one whose next month is January
Todays == {Nov2024, Dec2024}

InitServer ==
    /\ srvTransactions =
         << [id |-> 2, amount |-> 1, category |-> "Food & Drinks", type |-> "expense"],
            [id |-> 1, amount |-> 3, category |-> "Salary", type |-> "income"] >>
    /\ srvBudgets =
         << [id |-> 3, category |-> "Food & Drinks", amount |-> 2, spent |-> 1,
             month |-> today.month, year |-> today.year, recurring |-> TRUE] >>
    /\ srvGoals = << [id |-> 4, targetAmount |-> 2, currentAmount |-> 1] >>
    /\ srvNextId = 5

\* the provider just mounted: useState initial values, and the mount effect
\* has called fetchAllData
InitStore ==
    /\ transactions = <<>>
    /\ budgets = <<>>
    /\ savingsGoals = <<>>
    /\ loading = TRUE
    /\ error = Null
    /\ currentBudgetPeriod = [month |-> today.month, year |-> today.year]
    /\ totalIncome = 0
    /\ totalExpenses = 0
    /\ totalSavings = 0
    /\ availableBalance = 0
    /\ ops = << [kind |-> "load", phase |-> "sent1", arg |-> [none |-> TRUE],
                 period |-> [month |-> today.month, year |-> today.year],
                 resp1 |-> NoResp, resp2 |-> NoResp, caller |-> "useEffect",
                 alone |-> TRUE,
                 pre |-> [transactions |-> <<>>, budgets |-> <<>>, savingsGoals |-> <<>>,
                          totalIncome |-> 0, totalExpenses |-> 0, totalSavings |-> 0,
                          availableBalance |-> 0]] >>

\* nothing contributed yet: how many contributions were accepted, their sum,
\* and the available balance and the goal's amount at the first of them
NoContribution == [count |-> 0, sum |-> 0, balanceBefore |-> 0, goalBefore |-> 0]

InitUi ==
    /\ toast = NoToast
    /\ qaAmount = ""
    /\ selectedGoal = NoGoal
    /\ isContributeDialogOpen = FALSE
    /\ contributed = NoContribution

\* the localStorage-backed provider is not mounted next to the API-backed one
LocalIdle ==
    /\ data = [transactions |-> <<>>, budgets |-> <<>>, savingsGoals |-> <<>>]
    /\ now = 0

Init ==
    /\ today \in Todays
    /\ InitServer
    /\ InitStore
    /\ InitUi
    /\ fuel = MaxOps
    /\ last = NoLast
    /\ LocalIdle

Next ==
    \/ \E i \in 1..Len(ops): ServerAnswer(i)
    \/ \E i \in 1..Len(ops): NetworkFail(i)
    \/ \E i \in 1..Len(ops): fetchAllData_resolved(i)
    \/ \E i \in 1..Len(ops): addTransaction_created(i)
    \/ \E i \in 1..Len(ops): addTransaction_refreshed(i)
    \/ \E i \in 1..Len(ops): deleteTransaction_deleted(i)
    \/ \E i \in 1..Len(ops): deleteTransaction_refreshed(i)
    \/ \E i \in 1..Len(ops): addBudget_created(i)
    \/ \E i \in 1..Len(ops): updateBudget_updated(i)
    \/ \E i \in 1..Len(ops): deleteBudget_deleted(i)
    \/ \E i \in 1..Len(ops): createNextMonthBudgets_created(i)
    \/ \E i \in 1..Len(ops): createNextMonthBudgets_refreshed(i)
    \/ \E i \in 1..Len(ops): addSavingsGoal_created(i)
    \/ \E i \in 1..Len(ops): updateSavingsGoal_updated(i)
    \/ \E i \in 1..Len(ops): updateSavingsGoal_refreshed(i)
    \/ \E i \in 1..Len(ops): deleteSavingsGoal_deleted(i)
    \/ \E i \in 1..Len(ops): deleteSavingsGoal_refreshed(i)
    \/ \E amount \in AmountInputs: \E description \in DescriptionInputs:
         \E type \in {"income", "expense"}: \E category \in QuickAddCategories(type):
           QuickAdd_handleSubmit(amount, description, type, category)
    \/ \E k \in 1..Len(transactions): TransactionLog_handleDelete(transactions[k].id)
    \/ goToPreviousMonth
    \/ goToNextMonth
    \/ goToCurrentMonth
    \/ BudgetTracker_handleCreateNextMonthBudgets
    \/ \E c \in BudgetCategories: \E a \in BudgetAmountInputs: \E r \in BOOLEAN:
         BudgetTracker_handleAddBudget(c, a, r)
    \/ \E k \in 1..Len(budgets): \E a \in BudgetAmountInputs:
         BudgetCategory_handleUpdateBudget(budgets[k], a)
    \/ \E k \in 1..Len(budgets): BudgetCategory_handleDeleteBudget(budgets[k])
    \/ \E n \in GoalNameInputs: \E a \in GoalAmountInputs:
         SavingsGoals_handleAddGoal(n, a)
    \/ \E k \in 1..Len(savingsGoals): SavingsGoals_handleOpenContribute(savingsGoals[k])
    \/ \E a \in ContributionInputs:
         SavingsGoals_handleContribute(a) /\ UNCHANGED contributed
    \/ \E k \in 1..Len(savingsGoals): SavingsGoals_handleDeleteGoal(savingsGoals[k])
    \/ DirectCall

Spec == Init /\ [][Next]_vars

-----------------------------------------------------------------------------
\* Claims about the API-backed store

Mutations ==
    {"addTransaction", "deleteTransaction", "addBudget", "updateBudget",
     "deleteBudget", "createNextMonthBudgets", "addSavingsGoal",
     "updateSavingsGoal", "deleteSavingsGoal"}

\* the latest step settled an operation of this kind that ran with no other
\* operation in flight from its call to its end
SettledAlone(kind) == last.kind = kind /\ last.alone

ServerSummary == SrvSummary(srvTransactions, srvGoals)
ServerBudgets == SrvBudgetsFor(srvBudgets, srvTransactions, currentBudgetPeriod)

\* C1: when any network call of a mutation fails (the refresh after a
\* successful primary call included), transactions, budgets, savingsGoals and
\* the four totals are what they were before the operation started, and error
\* is set
C1_FailureLeavesStateUntouched ==
    (last.kind \in Mutations /\ ~last.ok /\ last.alone)
        => (Snapshot = last.pre /\ error # Null)

\* C2: whenever no operation is in flight,
\* availableBalance = totalIncome - totalExpenses - totalSavings
C2_BalanceIdentity ==
    ops = <<>> => availableBalance = totalIncome - totalExpenses - totalSavings

\* C3: the local budgets list never holds two budgets of one category in one
\* period
C3_OneBudgetPerCategoryAndPeriod ==
    \A i, j \in 1..Len(budgets):
        (i # j /\ budgets[i].category = budgets[j].category)
            => ~(budgets[i].month = budgets[j].month /\ budgets[i].year = budgets[j].year)

\* C4: after addTransaction succeeds with no other operation in flight, the
\* list is the earlier list with the server-returned transaction at its head,
\* budgets are the server's budgets of the active period, income, expenses and
\* balance are the server's summary, savingsGoals and the period are unchanged
C4_AddTransactionEffect ==
    (SettledAlone("addTransaction") /\ last.ok) =>
        /\ transactions = <<last.resp1.entity>> \o last.pre.transactions
        /\ last.resp1.entity.id \in Ids(srvTransactions)
        /\ last.resp1.entity.amount = last.arg.amount
        /\ last.resp1.entity.type = last.arg.type
        /\ last.resp1.entity.category = last.arg.category
        /\ budgets = ServerBudgets
        /\ totalIncome = ServerSummary.totalIncome
        /\ totalExpenses = ServerSummary.totalExpenses
        /\ availableBalance = ServerSummary.availableBalance
        /\ savingsGoals = last.pre.savingsGoals
        /\ currentBudgetPeriod = last.period

\* an expense was added to a non-empty list and changed a budget's spent
C4_Witness ==
    /\ SettledAlone("addTransaction") /\ last.ok
    /\ last.arg.type = "expense"
    /\ Len(last.pre.transactions) = 2
    /\ budgets # last.pre.budgets

C7_FailureShowsErrorToast ==
    (/\ last.kind \in {"addTransaction", "deleteTransaction"}
     /\ ~last.ok
     /\ last.caller \in {"QuickAdd.handleSubmit", "TransactionLog.handleDelete"})
        => /\ toast = [title |-> "Error", variant |-> "destructive"]
           /\ last.caller = "QuickAdd.handleSubmit" => qaAmount # ""

\* C8: after updateSavingsGoal(id, partial) succeeds the goal is the
\* server-returned goal and the other goals are unchanged; a partial holding a
\* currentAmount (0 included) re-fetches transactions and the summary totals,
\* a partial without one requests no refresh
C8_UpdateGoalRefreshesOnCurrentAmount ==
    (SettledAlone("updateSavingsGoal") /\ last.ok) =>
        /\ savingsGoals = ReplaceById(last.pre.savingsGoals, last.arg.id, last.resp1.entity)
        /\ IF "currentAmount" \in DOMAIN last.arg.data
           THEN /\ last.phase = "got2"
                /\ transactions = srvTransactions
                /\ totalExpenses = ServerSummary.totalExpenses
                /\ totalSavings = ServerSummary.totalSavings
                /\ availableBalance = ServerSummary.availableBalance
           ELSE /\ last.phase = "got1"
                /\ transactions = last.pre.transactions

-----------------------------------------------------------------------------
\* The localStorage-backed store (src/hooks/useFinanceData.tsx)

initialData ==
    [transactions |->
        << [id |-> 1, amount |-> 1500, category |-> "Salary", type |-> "income"],
           [id |-> 2, amount |-> 25, category |-> "Food & Drinks", type |-> "expense"],
           [id |-> 3, amount |-> 50, category |-> "Education", type |-> "expense"],
           [id |-> 4, amount |-> 200, category |-> "Side Hustle", type |-> "income"] >>,
     budgets |->
        << [id |-> 1, category |-> "Food & Drinks", amount |-> 300, spent |-> 150],
           [id |-> 2, category |-> "Transportation", amount |-> 200, spent |-> 80],
           [id |-> 3, category |-> "Entertainment", amount |-> 100, spent |-> 35],
           [id |-> 4, category |-> "Education", amount |-> 150, spent |-> 50] >>,
     savingsGoals |->
        << [id |-> 1, targetAmount |-> 1000, currentAmount |-> 500],
           [id |-> 2, targetAmount |-> 1200, currentAmount |-> 300] >>]

\* Date.now() when the provider mounts
StartNow == 100

\* the derived totals, computed on every render
LocalTotalIncome(d) == SeqSum(Amounts(SelectSeq(d.transactions, IsIncome)))
LocalTotalExpenses(d) == SeqSum(Amounts(SelectSeq(d.transactions, IsExpense)))
LocalTotalSavings(d) ==
    SeqSum([i \in 1..Len(d.savingsGoals) |-> d.savingsGoals[i].currentAmount])
LocalAvailableBalance(d) ==
    LocalTotalIncome(d) - LocalTotalExpenses(d) - LocalTotalSavings(d)

Max(a, b) == IF a >= b THEN a ELSE b

\* every store call is one synchronous step; `last` keeps the call, the data
\* it started from, and the same for the call before it
LocalStep(kind, arg, newData) ==
    /\ fuel > 0
    /\ fuel' = fuel - 1
    /\ data' = newData
    /\ last' = [kind |-> kind, arg |-> arg, before |-> data,
                prior |-> IF last = NoLast THEN NoLast
                          ELSE [kind |-> last.kind, arg |-> last.arg,
                                before |-> last.before]]
    /\ UNCHANGED <<storeVars, srvVars, ops, uiVars, today, contributed, now>>

Local_addTransaction(transaction) ==
    LET newTransaction == [id |-> now, amount |-> transaction.amount,
                           category |-> transaction.category, type |-> transaction.type]
        updatedBudgets ==
            [k \in 1..Len(data.budgets) |->
                IF data.budgets[k].category = transaction.category
                THEN [data.budgets[k] EXCEPT !.spent = @ + transaction.amount]
                ELSE data.budgets[k]]
    IN  LocalStep("local.addTransaction", transaction,
            IF transaction.type = "expense"
            THEN [data EXCEPT !.transactions = <<newTransaction>> \o @,
                              !.budgets = updatedBudgets]
            ELSE [data EXCEPT !.transactions = <<newTransaction>> \o @])

Local_deleteTransaction(id) ==
    LET found == {k \in 1..Len(data.transactions): data.transactions[k].id = id}
        k0 == CHOOSE k \in found: \A m \in found: k <= m
        transaction == data.transactions[k0]
        updatedBudgets ==
            [k \in 1..Len(data.budgets) |->
                IF data.budgets[k].category = transaction.category
                THEN [data.budgets[k] EXCEPT !.spent = Max(0, @ - transaction.amount)]
                ELSE data.budgets[k]]
        kept == SelectSeq(data.transactions, LAMBDA t: t.id # id)
    IN  LocalStep("local.deleteTransaction", [id |-> id],
            IF found = {} THEN data
            ELSE IF transaction.type = "expense"
            THEN [data EXCEPT !.transactions = kept, !.budgets = updatedBudgets]
            ELSE [data EXCEPT !.transactions = kept])

Local_addBudget(budget) ==
    LET newBudget == [id |-> now, category |-> budget.category,
                      amount |-> budget.amount, spent |-> 0]
    IN  LocalStep("local.addBudget", budget,
            [data EXCEPT !.budgets = Append(@, newBudget)])

Local_updateBudget(id, budgetData) ==
    LocalStep("local.updateBudget", [id |-> id, data |-> budgetData],
        [data EXCEPT !.budgets =
            [k \in 1..Len(@) |-> IF @[k].id = id THEN Merge(@[k], budgetData) ELSE @[k]]])

Local_deleteBudget(id) ==
    LocalStep("local.deleteBudget", [id |-> id],
        [data EXCEPT !.budgets = SelectSeq(@, LAMBDA b: b.id # id)])

Local_addSavingsGoal(goal) ==
    LET newGoal == [id |-> now, targetAmount |-> goal.targetAmount, currentAmount |-> 0]
    IN  LocalStep("local.addSavingsGoal", goal,
            [data EXCEPT !.savingsGoals = Append(@, newGoal)])

Local_updateSavingsGoal(id, goalData) ==
    LocalStep("local.updateSavingsGoal", [id |-> id, data |-> goalData],
        [data EXCEPT !.savingsGoals =
            [k \in 1..Len(@) |-> IF @[k].id = id THEN Merge(@[k], goalData) ELSE @[k]]])

Local_deleteSavingsGoal(id) ==
    LET found == {k \in 1..Len(data.savingsGoals): data.savingsGoals[k].id = id}
        k0 == CHOOSE k \in found: \A m \in found: k <= m
        goalToDelete == data.savingsGoals[k0]
        transferTransaction ==
            [id |-> now, amount |-> goalToDelete.currentAmount,
             category |-> "Savings Transfer", type |-> "income"]
        kept == SelectSeq(data.savingsGoals, LAMBDA g: g.id # id)
    IN  LocalStep("local.deleteSavingsGoal", [id |-> id],
            IF found = {} THEN data
            ELSE IF goalToDelete.currentAmount > 0
            THEN [data EXCEPT !.savingsGoals = kept,
                              !.transactions = <<transferTransaction>> \o @]
            ELSE [data EXCEPT !.savingsGoals = kept])

\* a millisecond passes
Tick ==
    /\ now < StartNow + MaxTicks
    /\ now' = now + 1
    /\ UNCHANGED <<storeVars, srvVars, ops, uiVars, today, contributed, fuel, last, data>>

LocalTransactionInputs ==
    {[amount |-> a, category |-> c, type |-> "expense"] :
        a \in {25, 200}, c \in {"Food & Drinks", "Shopping"}}
    \cup {[amount |-> 200, category |-> "Salary", type |-> "income"]}

ApiIdle ==
    /\ today = Dec2024
    /\ InitServer
    /\ transactions = <<>> /\ budgets = <<>> /\ savingsGoals = <<>>
    /\ loading = FALSE /\ error = Null
    /\ currentBudgetPeriod = Dec2024
    /\ totalIncome = 0 /\ totalExpenses = 0 /\ totalSavings = 0
    /\ availableBalance = 0
    /\ ops = <<>>
    /\ InitUi

InitLocal ==
    /\ ApiIdle
    /\ data = initialData
    /\ now = StartNow
    /\ fuel = MaxLocalOps
    /\ last = NoLast

NextLocal ==
    \/ \E t \in LocalTransactionInputs: Local_addTransaction(t)
    \/ \E id \in Ids(data.transactions) \cup {0}: Local_deleteTransaction(id)
    \/ \E c \in {"Food & Drinks", "Shopping"}:
         Local_addBudget([category |-> c, amount |-> 100])
    \/ \E id \in Ids(data.budgets): Local_updateBudget(id, [amount |-> 120])
    \/ \E id \in Ids(data.budgets): Local_deleteBudget(id)
    \/ Local_addSavingsGoal([targetAmount |-> 400])
    \/ \E k \in 1..Len(data.savingsGoals): \E a \in {0, 100}:
         Local_updateSavingsGoal(data.savingsGoals[k].id,
             [currentAmount |-> IF a = 0 THEN 0 ELSE data.savingsGoals[k].currentAmount + a])
    \/ \E id \in Ids(data.savingsGoals) \cup {0}: Local_deleteSavingsGoal(id)
    \/ Tick

SpecLocal == InitLocal /\ [][NextLocal]_vars

-----------------------------------------------------------------------------
\* Claims about the localStorage-backed store

\* C10: deleting a savings goal whose currentAmount is c returns exactly c to
\* available funds: availableBalance after the delete is availableBalance
\* before it plus c (unchanged when c = 0)
C10_DeleteGoalReturnsItsBalance ==
    last.kind = "local.deleteSavingsGoal" =>
        LET gone == SelectSeq(last.before.savingsGoals, LAMBDA g: g.id = last.arg.id)
            c == SeqSum([i \in 1..Len(gone) |-> gone[i].currentAmount])
        IN  LocalAvailableBalance(data) = LocalAvailableBalance(last.before) + c

-----------------------------------------------------------------------------
\* Claims about the UI handlers' validation

\* C11: SavingsGoals.handleContribute rejects an amount that is unparseable,
\* not positive or greater than the store's availableBalance: no store
\* operation is started, nothing is sent, the snapshot and error stay as they
\* are; an accepted amount starts exactly one updateSavingsGoal, with
\* currentAmount = the selected goal's currentAmount + amount
C11_ContributeValidation ==
    [][last'.kind = "SavingsGoals.handleContribute" =>
        LET amount == parseFloat(last'.input.amount)
        IN  IF amount.nan \/ amount.val <= 0 \/ amount.val > availableBalance
            THEN /\ ops' = ops
                 /\ Snapshot' = Snapshot
                 /\ error' = error
                 /\ UNCHANGED srvVars
            ELSE /\ Len(ops') = Len(ops) + 1
                 /\ ops'[Len(ops')].kind = "updateSavingsGoal"
                 /\ ops'[Len(ops')].phase = "sent1"
                 /\ ops'[Len(ops')].arg =
                       [id |-> selectedGoal.id,
                        data |-> [currentAmount |-> selectedGoal.currentAmount + amount.val]]
                 /\ Snapshot' = Snapshot
                 /\ UNCHANGED srvVars]_vars

\* a contribution of 2 was refused against an available balance of 1
C11_Witness ==
    /\ last.kind = "SavingsGoals.handleContribute"
    /\ last.input.amount = "2"
    /\ availableBalance = 1
    /\ selectedGoal.id # 0
    /\ toast.title = "Insufficient balance"
    /\ ops = <<>>

ValidatingHandlers ==
    {"QuickAdd.handleSubmit", "BudgetTracker.handleAddBudget",
     "BudgetCategory.handleUpdateBudget", "SavingsGoals.handleAddGoal"}

\* the amount field does not hold a positive number
InvalidAmount(field) == parseFloat(field).nan \/ parseFloat(field).val <= 0

\* a required field of the submitted form is missing or its amount is invalid
FailsValidation(l) ==
    \/ InvalidAmount(l.input.amount)
    \/ l.kind = "QuickAdd.handleSubmit" /\ (l.input.amount = "" \/ l.input.description = "")
    \/ l.kind = "SavingsGoals.handleAddGoal" /\ l.input.name = ""

\* the amount an operation submits
SubmittedAmount(o) ==
    CASE o.kind = "addTransaction" -> o.arg.amount
      [] o.kind = "addBudget" -> o.arg.amount
      [] o.kind = "updateBudget" -> o.arg.data.amount
      [] o.kind = "addSavingsGoal" -> o.arg.targetAmount

-----------------------------------------------------------------------------
\* Claims about createNextMonthBudgets and loading

\* the month after a month, as the claim states it
MonthAfter(p) ==
    IF p.month = 12 THEN [month |-> 1, year |-> p.year + 1]
    ELSE [month |-> p.month + 1, year |-> p.year]

LoadInFlight == \E i \in 1..Len(ops): ops[i].kind = "load"

\* C14: loading is true exactly when at least one full load is in flight
\* (CRUD operations neither raise it nor lower it while a load is pending;
\* with overlapping loads it stays true until the last one has settled)
C14_LoadingIffLoadInFlight == loading <=> LoadInFlight

-----------------------------------------------------------------------------
\* The localStorage-backed store started from saved data whose budgets agree
\* with its transactions

\* the sum of the expense transactions of a category
ExpensesIn(d, category) ==
    SeqSum(Amounts(SelectSeq(d.transactions,
                             LAMBDA t: IsExpense(t) /\ t.category = category)))

\* localStorage.getItem('financeData'): the sample data with every spent
\* equal to the expenses of its category
savedData ==
    [initialData EXCEPT !.budgets =
        [k \in 1..Len(initialData.budgets) |->
            [initialData.budgets[k] EXCEPT
                !.spent = ExpensesIn(initialData, initialData.budgets[k].category)]]]

InitLocalSaved ==
    /\ ApiIdle
    /\ data = savedData
    /\ now = StartNow
    /\ fuel = MaxLocalOps
    /\ last = NoLast

SpecLocalSaved == InitLocalSaved /\ [][NextLocal]_vars

\* C15: started from budgets whose spent equals the expenses of their
\* category, every budget's spent still equals that sum, and is not negative,
\* after any sequence of store calls
C15_SpentIsDerived ==
    \A k \in 1..Len(data.budgets):
        /\ data.budgets[k].spent = ExpensesIn(data, data.budgets[k].category)
        /\ data.budgets[k].spent >= 0

\* the spent of every budget, in list order
Spents(d) == [k \in 1..Len(d.budgets) |-> d.budgets[k].spent]

LocalTotals(d) ==
    [totalIncome |-> LocalTotalIncome(d), totalExpenses |-> LocalTotalExpenses(d),
     totalSavings |-> LocalTotalSavings(d), availableBalance |-> LocalAvailableBalance(d)]

\* the latest two calls were addTransaction and then deleteTransaction of the
\* transaction that add had created
AddedThenDeleted ==
    /\ last.kind = "local.deleteTransaction"
    /\ last.prior.kind = "local.addTransaction"
    /\ last.arg.id = Head(last.before.transactions).id

\* C16: adding a transaction and then deleting it returns the transactions
\* list, every budget's spent and the four totals to what they were before
\* the add; after any deleteTransaction the totals are the sums over the
\* remaining transactions
C16_AddThenDeleteRestores ==
    /\ AddedThenDeleted =>
          /\ data.transactions = last.prior.before.transactions
          /\ Spents(data) = Spents(last.prior.before)
          /\ LocalTotals(data) = LocalTotals(last.prior.before)
    /\ last.kind = "local.deleteTransaction" =>
          /\ data.transactions =
                SelectSeq(last.before.transactions, LAMBDA t: t.id # last.arg.id)
          /\ LocalTotalIncome(data) = SeqSum(Amounts(SelectSeq(data.transactions, IsIncome)))
          /\ LocalTotalExpenses(data) = SeqSum(Amounts(SelectSeq(data.transactions, IsExpense)))

-----------------------------------------------------------------------------
\* Analytics: the derived figures the analytics components compute at render
\* from the store's transactions. Amounts are integers and quotients are kept
\* as exact fractions; a date is kept at month granularity, which is all the
\* startOfMonth/endOfMonth filters look at.

MaxTxns == 3

Oct2024 == [month |-> 10, year |-> 2024]

\* x / y of two JavaScript numbers (x, y integers here): 0/0 is NaN, x/0 is
\* +-Infinity, anything else the exact fraction
Quot(x, y) ==
    IF y = 0
    THEN [q |-> IF x = 0 THEN "NaN" ELSE "Infinity", num |-> x, den |-> 0]
    ELSE [q |-> "num", num |-> x, den |-> y]

\* a > b for two finite fractions with positive denominators
QuotGreater(a, b) == a.num * b.den > b.num * a.den

\* subMonths(now, 1), at month granularity
SubMonth(t) ==
    IF t.month = 1 THEN [month |-> 12, year |-> t.year - 1]
    ELSE [month |-> t.month - 1, year |-> t.year]

\* Array.prototype.sort with a comparator (a, b) => key(b) - key(a): stable,
\* descending; greater[i, j] says that element i has the larger key, and
\* order[p] is the index of the element that lands at position p
DescendingOrder(n, greater) ==
    LET Rank(i) ==
            1 + Cardinality({j \in 1..n :
                    \/ greater[j, i]
                    \/ ~greater[i, j] /\ j < i})
    IN [p \in 1..n |-> CHOOSE i \in 1..n : Rank(i) = p]

\* const currentMonthExpenses = useMemo(...)
currentMonthExpenses(txs) ==
    SelectSeq(txs, LAMBDA t: t.type = "expense" /\ t.date = today)

\* const previousMonthExpenses = useMemo(...)
previousMonthExpenses(txs) ==
    SelectSeq(txs, LAMBDA t: t.type = "expense" /\ t.date = SubMonth(today))

\* const monthOverMonthChange = useMemo(...)
useAnalyticsData_monthOverMonthChange(current, previous) ==
    LET currentTotal == SeqSum(Amounts(current))
        previousTotal == SeqSum(Amounts(previous))
    IN IF previousTotal = 0 THEN Quot(0, 1)
       ELSE Quot((currentTotal - previousTotal) * 100, previousTotal)

\* the reducer of currentMonthSpendingByCategory: acc.find, then += or push
RECURSIVE currentMonthSpendingByCategory_reduce(_, _)
currentMonthSpendingByCategory_reduce(acc, txs) ==
    IF txs = <<>> THEN acc
    ELSE LET transaction == Head(txs)
             found == {k \in 1..Len(acc) : acc[k].category = transaction.category}
             existingCategory == CHOOSE k \in found : \A j \in found : k <= j
         IN currentMonthSpendingByCategory_reduce(
                IF found # {}
                THEN [acc EXCEPT ![existingCategory].amount = @ + transaction.amount]
                ELSE Append(acc, [category |-> transaction.category,
                                  amount |-> transaction.amount]),
                Tail(txs))

\* const currentMonthSpendingByCategory = useMemo(... .reduce(...).sort(...))
currentMonthSpendingByCategory(expenses) ==
    LET acc == currentMonthSpendingByCategory_reduce(<<>>, expenses)
        order == DescendingOrder(Len(acc),
                    [i, j \in 1..Len(acc) |-> acc[i].amount > acc[j].amount])
    IN [p \in 1..Len(acc) |-> acc[order[p]]]

\* the reducer of SpendingDashboard's expensesByCategory
RECURSIVE expensesByCategory_reduce(_, _)
expensesByCategory_reduce(acc, txs) ==
    IF txs = <<>> THEN acc
    ELSE LET transaction == Head(txs)
             found == {k \in 1..Len(acc) : acc[k].category = transaction.category}
             existingCategory == CHOOSE k \in found : \A j \in found : k <= j
         IN expensesByCategory_reduce(
                IF found # {}
                THEN [acc EXCEPT ![existingCategory].value = @ + transaction.amount]
                ELSE Append(acc, [category |-> transaction.category,
                                  value |-> transaction.amount,
                                  name |-> transaction.category]),
                Tail(txs))

\* const expensesByCategory = transactions.filter(...).reduce(...)
expensesByCategory(txs) ==
    expensesByCategory_reduce(<<>>, SelectSeq(txs, LAMBDA t: t.type = "expense"))

sortedExpenses_unsorted(byCategory) == byCategory

\* const sortedExpenses = [...expensesByCategory].sort((a, b) => b.value - a.value)
sortedExpenses(byCategory) ==
    LET order == DescendingOrder(Len(byCategory),
                     [i, j \in 1..Len(byCategory) |->
                        byCategory[i].value > byCategory[j].value])
    IN [p \in 1..Len(byCategory) |-> byCategory[order[p]]]

\* previousMonthTotal = totalExpenses * 0.9, then
\* ((totalExpenses - previousMonthTotal) / previousMonthTotal) * 100;
\* 0.9 is kept as 9/10, so previousMonthTotal is 9 * total / 10
SpendingDashboard_monthOverMonthChange(total) ==
    Quot((10 * total - 9 * total) * 100, 9 * total)

\* getMonthExpenses(date) of ComparisonTools
getMonthExpenses(txs, date) ==
    SelectSeq(txs, LAMBDA t: t.type = "expense" /\ t.date = date)

\* getExpensesByCategory: an object keyed by category
getExpensesByCategory(expenses) ==
    [c \in {expenses[k].category : k \in 1..Len(expenses)} |->
        SeqSum(Amounts(SelectSeq(expenses, LAMBDA tx: tx.category = c)))]

RECURSIVE SumValues(_)
\* Object.values(o).reduce((sum, val) => sum + val, 0)
SumValues(o) ==
    IF DOMAIN o = {} THEN 0
    ELSE LET c == CHOOSE c \in DOMAIN o : TRUE
         IN o[c] + SumValues([d \in DOMAIN o \ {c} |-> o[d]])

\* currentTotal, previousTotal, totalDifference, totalPercentChange
ComparisonTools_totalPercentChange(txs) ==
    LET currentTotal == SumValues(getExpensesByCategory(getMonthExpenses(txs, today)))
        previousTotal ==
            SumValues(getExpensesByCategory(getMonthExpenses(txs, SubMonth(today))))
        totalDifference == currentTotal - previousTotal
    IN IF previousTotal # 0 THEN Quot(totalDifference * 100, previousTotal)
       ELSE Quot(0, 1)

\* property names every object inherits from Object.prototype: acc[name] is
\* a truthy value that is not an array, even when acc = {} has no own
\* property of that name
ObjectPrototypeKeys ==
    {"constructor", "toString", "valueOf", "hasOwnProperty", "isPrototypeOf",
     "propertyIsEnumerable", "toLocaleString", "__proto__"}

\* the reducer of merchantTransactions: `if (!acc[merchant]) acc[merchant] = []`
\* then `acc[merchant].push(transaction)`, which throws a TypeError when
\* acc[merchant] is an inherited member; own keys keep insertion order
RECURSIVE merchantTransactions_reduce(_, _)
merchantTransactions_reduce(acc, txs) ==
    IF acc.threw \/ txs = <<>> THEN acc
    ELSE LET transaction == Head(txs)
             merchant == transaction.description
             own == {k \in 1..Len(acc.entries) : acc.entries[k].merchant = merchant}
             k == CHOOSE k \in own : TRUE
         IN merchantTransactions_reduce(
                IF own # {}
                THEN [acc EXCEPT !.entries[k].txs = Append(@, transaction)]
                ELSE IF merchant \in ObjectPrototypeKeys
                THEN [acc EXCEPT !.threw = TRUE]
                ELSE [acc EXCEPT !.entries =
                        Append(@, [merchant |-> merchant, txs |-> <<transaction>>])],
                Tail(txs))

\* const merchantTransactions = transactions.filter(...).reduce(...)
merchantTransactions(txs) ==
    merchantTransactions_reduce([threw |-> FALSE, entries |-> <<>>],
                                SelectSeq(txs, LAMBDA t: t.type = "expense"))

\* amounts.every(amt => Math.abs(amt - avgAmount) / avgAmount < 0.1) with
\* avgAmount = sum / n: for sum > 0 this is |amt * n - sum| * 10 < sum; for
\* sum = 0 the quotient is NaN or Infinity and the comparison is false
consistent(amounts) ==
    LET n == Len(amounts)
        sum == SeqSum(amounts)
        Abs(x) == IF x < 0 THEN 0 - x ELSE x
    IN \A i \in 1..n : sum > 0 /\ Abs(amounts[i] * n - sum) * 10 < sum

\* const potentialRecurring = Object.entries(merchantTransactions)
\*     .filter(...).map(...).filter(item => item.consistent).sort(...)
potentialRecurring(mt) ==
    IF mt.threw THEN [threw |-> TRUE, items |-> <<>>]
    ELSE LET multiple == SelectSeq(mt.entries, LAMBDA e: Len(e.txs) >= 2)
             mapped ==
                [k \in 1..Len(multiple) |->
                    LET txs == multiple[k].txs
                        amounts == Amounts(txs)
                    IN [merchant |-> multiple[k].merchant,
                        transactions |-> txs,
                        frequency |-> Len(txs),
                        avgAmount |-> Quot(SeqSum(amounts), Len(amounts)),
                        consistent |-> consistent(amounts),
                        lastTransaction |-> txs[1].date,
                        annualImpact |->
                            Quot(SeqSum(amounts) * 12,
                                 Len(amounts) * (IF Len(txs) < 3 THEN 1 ELSE 3))]]
             kept == SelectSeq(mapped, LAMBDA item: item.consistent)
             order == DescendingOrder(Len(kept),
                        [i, j \in 1..Len(kept) |->
                            QuotGreater(kept[i].avgAmount, kept[j].avgAmount)])
         IN [threw |-> FALSE, items |-> [p \in 1..Len(kept) |-> kept[order[p]]]]

\* the transactions the analytics are fed: expenses of three amounts, in the
\* current and the previous month, over category/description pairs that share
\* a category or a description; one older expense; one expense whose
\* description is an inherited property name; one income per month
AnalyticsTransactionInputs ==
    {[amount |-> a, category |-> cd[1], description |-> cd[2],
      type |-> "expense", date |-> d] :
        a \in {90, 110, 130}, d \in {Dec2024, Nov2024},
        cd \in {<<"Bills", "Netflix">>, <<"Food & Drinks", "Netflix">>,
                <<"Food & Drinks", "Cafe">>}}
    \cup {[amount |-> 130, category |-> "Bills", description |-> "Netflix",
           type |-> "expense", date |-> Oct2024]}
    \cup {[amount |-> 110, category |-> "Bills", description |-> "constructor",
           type |-> "expense", date |-> Dec2024]}
    \cup {[amount |-> 110, category |-> "Salary", description |-> "Netflix",
           type |-> "income", date |-> d] : d \in {Dec2024, Nov2024}}

\* a > n for a fraction a with a positive denominator and an integer n
QuotExceeds(a, n) == a.num > n * a.den

ComparisonTools_status_from85(percentUsed) ==
    IF QuotExceeds(percentUsed, 100) THEN "over"
    ELSE IF percentUsed.num >= 85 * percentUsed.den THEN "warning" ELSE "good"

\* percentUsed > 100 ? 'over' : percentUsed > 85 ? 'warning' : 'good'
ComparisonTools_status(percentUsed) ==
    IF QuotExceeds(percentUsed, 100) THEN "over"
    ELSE IF QuotExceeds(percentUsed, 85) THEN "warning" ELSE "good"

\* const budgetComparison = budgets.map(...).sort(...); `budget.spent || 0`
\* is 0 for a spent of 0 and spent otherwise
budgetComparison(bs) ==
    LET rows ==
            [k \in 1..Len(bs) |->
                LET budget == bs[k]
                    spent == IF budget.spent = 0 THEN 0 ELSE budget.spent
                    percentUsed == Quot(spent * 100, budget.amount)
                IN [category |-> budget.category,
                    budgeted |-> budget.amount,
                    spent |-> spent,
                    remaining |-> Max(0, budget.amount - spent),
                    percentUsed |-> percentUsed,
                    status |-> ComparisonTools_status(percentUsed)]]
        order == DescendingOrder(Len(rows),
                    [i, j \in 1..Len(rows) |->
                        QuotGreater(rows[i].percentUsed, rows[j].percentUsed)])
    IN [p \in 1..Len(rows) |-> rows[order[p]]]

\* <Progress value={Math.min(item.percentUsed, 100)} />
Progress_value(item) ==
    IF QuotExceeds(item.percentUsed, 100) THEN Quot(100, 1) ELSE item.percentUsed

MaxBudgetRows == 2

\* budgets the store can hold (amount > 0), with a spent below, at and above
\* 85% and 100% of the amount
BudgetRowInputs ==
    {[category |-> "Bills", amount |-> 100, spent |-> s] :
        s \in {0, 84, 85, 86, 100, 101, 250}}
    \cup {[category |-> "Food & Drinks", amount |-> 300, spent |-> s] :
        s \in {150, 255, 256, 260, 300, 301}}

analyticsFixed ==
    <<savingsGoals, loading, error, currentBudgetPeriod, totalSavings,
      srvVars, ops, uiVars, today, contributed, fuel, localVars>>

\* the store hands the components a transactions list and its totals
Analytics_transactionsChanged(t) ==
    /\ Len(transactions) < MaxTxns
    /\ transactions' = Append(transactions, t)
    /\ totalIncome' = IF t.type = "income" THEN totalIncome + t.amount ELSE totalIncome
    /\ totalExpenses' =
          IF t.type = "expense" THEN totalExpenses + t.amount ELSE totalExpenses
    /\ availableBalance' = totalIncome' - totalExpenses' - totalSavings
    /\ last' = NoLast
    /\ UNCHANGED <<budgets, analyticsFixed>>

\* a render of a component that calls useAnalyticsData()
useAnalyticsData_render ==
    /\ last' = [kind |-> "useAnalyticsData",
                currentMonthSpendingByCategory |->
                    currentMonthSpendingByCategory(currentMonthExpenses(transactions)),
                monthOverMonthChange |->
                    useAnalyticsData_monthOverMonthChange(
                        currentMonthExpenses(transactions),
                        previousMonthExpenses(transactions))]
    /\ UNCHANGED <<transactions, budgets, totalIncome, totalExpenses,
                   availableBalance, analyticsFixed>>

\* a render of SpendingDashboard
SpendingDashboard_render ==
    /\ last' = [kind |-> "SpendingDashboard",
                expensesByCategory |-> expensesByCategory(transactions),
                sortedExpenses |-> sortedExpenses(expensesByCategory(transactions)),
                monthOverMonthChange |->
                    SpendingDashboard_monthOverMonthChange(totalExpenses)]
    /\ UNCHANGED <<transactions, budgets, totalIncome, totalExpenses,
                   availableBalance, analyticsFixed>>

\* the store hands ComparisonTools a budgets list
ComparisonTools_budgetsChanged(b) ==
    /\ Len(budgets) < MaxBudgetRows
    /\ budgets' = Append(budgets, b)
    /\ last' = NoLast
    /\ UNCHANGED <<transactions, totalIncome, totalExpenses, availableBalance,
                   analyticsFixed>>

\* a render of ComparisonTools: budget comparison and period comparison
ComparisonTools_render ==
    /\ last' = [kind |-> "ComparisonTools",
                budgetComparison |-> budgetComparison(budgets),
                progress |->
                    [i \in 1..Len(budgets) |->
                        Progress_value(budgetComparison(budgets)[i])],
                totalPercentChange |-> ComparisonTools_totalPercentChange(transactions)]
    /\ UNCHANGED <<transactions, budgets, totalIncome, totalExpenses,
                   availableBalance, analyticsFixed>>

\* a render of SpendingPatterns
SpendingPatterns_render ==
    /\ last' = [kind |-> "SpendingPatterns",
                potentialRecurring |->
                    potentialRecurring(merchantTransactions(transactions))]
    /\ UNCHANGED <<transactions, budgets, totalIncome, totalExpenses,
                   availableBalance, analyticsFixed>>

InitAnalytics ==
    /\ ApiIdle
    /\ data = initialData
    /\ now = StartNow
    /\ fuel = 0
    /\ last = NoLast

NextAnalytics ==
    \/ \E t \in AnalyticsTransactionInputs: Analytics_transactionsChanged(t)
    \/ useAnalyticsData_render
    \/ SpendingDashboard_render
    \/ ComparisonTools_render
    \/ SpendingPatterns_render

SpecAnalytics == InitAnalytics /\ [][NextAnalytics]_vars

\* the expenses a component's category totals are about
MatchingExpenses(component) ==
    SelectSeq(transactions,
        LAMBDA t: /\ t.type = "expense"
                  /\ component = "useAnalyticsData" => t.date = today)

\* entries (category, amount) are exactly the per-category sums of txs, one
\* entry per category, and together sum to the total of txs
IsCategoryTotals(categories, amounts, txs) ==
    /\ Len(categories) = Len(amounts)
    /\ \A i, j \in 1..Len(categories): categories[i] = categories[j] => i = j
    /\ {categories[i] : i \in 1..Len(categories)} =
          {txs[k].category : k \in 1..Len(txs)}
    /\ \A i \in 1..Len(categories):
          amounts[i] =
            SeqSum(Amounts(SelectSeq(txs, LAMBDA t: t.category = categories[i])))
    /\ SeqSum(amounts) = SeqSum(Amounts(txs))

NonIncreasing(amounts) ==
    \A i \in 1..Len(amounts) - 1: amounts[i] >= amounts[i + 1]

\* C17: the category totals of useAnalyticsData and of SpendingDashboard hold
\* one entry per category of the matching expenses, each the sum of that
\* category's matching amounts, all together the total of the matching
\* expenses (income adds nothing), and the sorted lists are in non-increasing
\* order of amount
C17_CategoryTotals ==
    /\ last.kind = "useAnalyticsData" =>
          LET r == last.currentMonthSpendingByCategory
              amounts == [i \in 1..Len(r) |-> r[i].amount]
          IN /\ IsCategoryTotals([i \in 1..Len(r) |-> r[i].category], amounts,
                                 MatchingExpenses("useAnalyticsData"))
             /\ NonIncreasing(amounts)
    /\ last.kind = "SpendingDashboard" =>
          LET e == last.expensesByCategory
              s == last.sortedExpenses
              Values(r) == [i \in 1..Len(r) |-> r[i].value]
              Cats(r) == [i \in 1..Len(r) |-> r[i].category]
          IN /\ IsCategoryTotals(Cats(e), Values(e), MatchingExpenses("SpendingDashboard"))
             /\ IsCategoryTotals(Cats(s), Values(s), MatchingExpenses("SpendingDashboard"))
             /\ NonIncreasing(Values(s))

\* SpendingDashboard has rendered the totals of two categories, which the
\* sort had to reorder, from a list that also holds an income
C17_Witness ==
    /\ last.kind = "SpendingDashboard"
    /\ \E k \in 1..Len(transactions): transactions[k].type = "income"
    /\ Len(last.sortedExpenses) = 2
    /\ last.sortedExpenses # last.expensesByCategory

\* r is a finite number, 0 when previous = 0 and otherwise
\* (current - previous) / previous x 100
IsChange(r, current, previous) ==
    /\ r.q = "num"
    /\ IF previous = 0 THEN r.num = 0
       ELSE r.num * previous = (current - previous) * 100 * r.den

MonthTotal(date) ==
    SeqSum(Amounts(SelectSeq(transactions,
        LAMBDA t: t.type = "expense" /\ t.date = date)))

\* C19: each of the three month-over-month changes is exactly 0 when the
\* previous period's total is 0, never the result of a division by zero, and
\* otherwise (current - previous) / previous x 100; SpendingDashboard's
\* previous total is its stand-in, nine tenths of totalExpenses
C19_MonthOverMonthChange ==
    /\ last.kind = "useAnalyticsData" =>
          IsChange(last.monthOverMonthChange, MonthTotal(today),
                   MonthTotal(SubMonth(today)))
    /\ last.kind = "ComparisonTools" =>
          IsChange(last.totalPercentChange, MonthTotal(today),
                   MonthTotal(SubMonth(today)))
    /\ last.kind = "SpendingDashboard" =>
          IsChange(last.monthOverMonthChange, 10 * totalExpenses, 9 * totalExpenses)

\* the expense transactions with description d, in list order
DescriptionGroup(d) ==
    SelectSeq(transactions, LAMBDA t: t.type = "expense" /\ t.description = d)

\* the recurring list SpendingPatterns shows: nothing when the render threw
Listed ==
    IF last.potentialRecurring.threw THEN {}
    ELSE {last.potentialRecurring.items[k] :
            k \in 1..Len(last.potentialRecurring.items)}

\* every amount of g is less than / some amount of g is more than 10% of the
\* mean away from the mean (mean = sum / n, compared after multiplying out)
AllWithinTenPercent(g) ==
    \A k \in 1..Len(g):
        LET diff == g[k].amount * Len(g) - SeqSum(Amounts(g))
        IN (IF diff < 0 THEN 0 - diff ELSE diff) * 10 < SeqSum(Amounts(g))

SomeBeyondTenPercent(g) ==
    \E k \in 1..Len(g):
        LET diff == g[k].amount * Len(g) - SeqSum(Amounts(g))
        IN (IF diff < 0 THEN 0 - diff ELSE diff) * 10 > SeqSum(Amounts(g))

\* C20: SpendingPatterns lists a description only for a group of at least two
\* expenses with that description; a group of two or more whose amounts are
\* all within 10% of the group mean is listed; a group with an amount more
\* than 10% from the mean, or of a single transaction, is not; a listed
\* group holds exactly the expenses of its description, never an income
C20_RecurringDetection ==
    last.kind = "SpendingPatterns" =>
        /\ \A item \in Listed:
              /\ item.transactions = DescriptionGroup(item.merchant)
              /\ Len(item.transactions) >= 2
        /\ \A k \in 1..Len(transactions):
              LET d == transactions[k].description
                  g == DescriptionGroup(d)
                  listed == \E item \in Listed: item.merchant = d
              IN /\ (Len(g) >= 2 /\ AllWithinTenPercent(g)) => listed
                 /\ (Len(g) <= 1 \/ SomeBeyondTenPercent(g)) => ~listed

-----------------------------------------------------------------------------
\* ComparisonTools over the store's budgets

NextComparison ==
    \/ \E b \in BudgetRowInputs: ComparisonTools_budgetsChanged(b)
    \/ ComparisonTools_render

SpecComparison == InitAnalytics /\ [][NextComparison]_vars

\* C18: every budget (amount > 0) gets one row whose status follows from the
\* uncapped p = spent / amount x 100: "good" iff p <= 85, "warning" iff
\* 85 < p <= 100, "over" iff p > 100; the row keeps p uncapped and the
\* progress bar gets min(p, 100)
C18_BudgetStatus ==
    last.kind = "ComparisonTools" =>
        LET rows == last.budgetComparison
        IN /\ Len(rows) = Len(budgets)
           /\ \A k \in 1..Len(budgets):
                \E i \in 1..Len(rows):
                    /\ rows[i].category = budgets[k].category
                    /\ rows[i].budgeted = budgets[k].amount
                    /\ rows[i].spent = budgets[k].spent
           /\ \A i \in 1..Len(rows):
                LET p100 == rows[i].spent * 100
                    amount == rows[i].budgeted
                    shown == last.progress[i]
                IN /\ rows[i].status \in {"good", "warning", "over"}
                   /\ rows[i].status = "good" <=> p100 <= 85 * amount
                   /\ rows[i].status = "warning" <=>
                         (85 * amount < p100 /\ p100 <= 100 * amount)
                   /\ rows[i].status = "over" <=> p100 > 100 * amount
                   /\ rows[i].percentUsed.q = "num"
                   /\ rows[i].percentUsed.num * amount = p100 * rows[i].percentUsed.den
                   /\ shown.q = "num"
                   /\ IF p100 > 100 * amount
                      THEN shown.num = 100 * shown.den
                      ELSE shown.num * amount = p100 * shown.den

\* ComparisonTools has rendered a budget at exactly 85% as "good" next to one
\* over budget whose progress bar is capped at 100
C18_Witness ==
    /\ last.kind = "ComparisonTools"
    /\ Len(last.budgetComparison) = 2
    /\ \E i \in 1..2:
          /\ last.budgetComparison[i].spent * 100 = 85 * last.budgetComparison[i].budgeted
          /\ last.budgetComparison[i].status = "good"
    /\ \E i \in 1..2:
          /\ last.budgetComparison[i].spent > last.budgetComparison[i].budgeted
          /\ last.budgetComparison[i].status = "over"
          /\ last.progress[i] = Quot(100, 1)

-----------------------------------------------------------------------------
\* Further claims about the analytics

\* C21: every listed recurring group's projected annual cost is
\* mean x (12 / min(occurrences, 3)): 6 x mean for 2 occurrences, 4 x mean
\* for 3 or more
C21_AnnualImpact ==
    last.kind = "SpendingPatterns" =>
        \A item \in Listed:
            LET n == Len(item.transactions)
                sum == SeqSum(Amounts(item.transactions))
                occurrences == IF n < 3 THEN n ELSE 3
            IN /\ item.annualImpact.q = "num"
               /\ item.annualImpact.num * n * occurrences =
                     sum * 12 * item.annualImpact.den

-----------------------------------------------------------------------------
\* The API client (services/api.ts): one fetch per call, then handleResponse

MaxCalls == 2

\* the Response fetch resolves with: ok is true for a status of 200..299
Response(status, body) ==
    [status |-> status,
     ok |-> status \in 200..299,
     statusText |-> CASE status = 200 -> "OK"
                      [] status = 201 -> "CREATED"
                      [] status = 204 -> "NO CONTENT"
                      [] status = 400 -> "BAD REQUEST"
                      [] status = 404 -> "NOT FOUND"
                      [] OTHER -> "INTERNAL SERVER ERROR",
     body |-> body]

\* response.json(): the value a JSON text stands for, or a SyntaxError
JSON_parse(text) ==
    CASE text = "[]" -> [threw |-> FALSE, value |-> <<>>]
      [] text = "{\"id\": 7}" -> [threw |-> FALSE, value |-> [id |-> 7]]
      [] text = "{\"error\": \"no such id\"}" ->
            [threw |-> FALSE, value |-> [error |-> "no such id"]]
      [] OTHER -> [threw |-> TRUE, value |-> "SyntaxError"]

\* the responses a call can meet: JSON bodies on 200 and 201 (response bodies
\* are JSON), no body on 204, and on an error status an empty body, a plain
\* text or a JSON text
Responses ==
    {Response(st, b) : st \in {200, 201}, b \in {"[]", "{\"id\": 7}"}}
    \cup {Response(204, "")}
    \cup {Response(st, b) : st \in {400, 404, 500},
                            b \in {"", "Not found", "{\"error\": \"no such id\"}"}}

handleResponse_statusTextOnly(response) ==
    IF ~response.ok
    THEN [threw |-> TRUE, message |-> response.statusText, json |-> FALSE]
    ELSE IF response.status = 204
    THEN [threw |-> FALSE, message |-> "", json |-> FALSE]
    ELSE [threw |-> JSON_parse(response.body).threw, message |-> "", json |-> TRUE]

\* handleResponse: threw/message describe the rejection, json says whether
\* response.json() was called; the value returned is handleResponse_value
handleResponse(response) ==
    IF ~response.ok
    THEN [threw |-> TRUE,
          message |-> IF response.body # "" THEN response.body
                      ELSE response.statusText,
          json |-> FALSE]
    ELSE IF response.status = 204
    THEN [threw |-> FALSE, message |-> "", json |-> FALSE]
    ELSE [threw |-> JSON_parse(response.body).threw, message |-> "", json |-> TRUE]

\* what handleResponse returns when it does not throw
handleResponse_value(response) ==
    IF response.status = 204 THEN Null ELSE JSON_parse(response.body).value

ApiCalls == {"transactionsApi.getAll", "transactionsApi.delete", "budgetsApi.create"}

apiFixed ==
    <<storeVars, srvVars, uiVars, today, contributed, fuel, localVars>>

\* an API function is called: `await fetch(...)` issues its one request
Api_call(api) ==
    /\ Len(ops) < MaxCalls
    /\ ops' = Append(ops, [api |-> api, requests |-> 1])
    /\ last' = NoLast
    /\ UNCHANGED apiFixed

\* fetch resolves with a response and the call returns handleResponse(response)
Api_respond(i, response) ==
    /\ i \in 1..Len(ops)
    /\ ops' = RemoveAt(ops, i)
    /\ last' = [kind |-> "api", api |-> ops[i].api, requests |-> ops[i].requests,
                fetched |-> TRUE, response |-> response,
                result |-> handleResponse(response),
                value |-> IF handleResponse(response).threw THEN Null
                          ELSE handleResponse_value(response)]
    /\ UNCHANGED apiFixed

\* fetch rejects (no response): the call rejects with fetch's error
Api_fetchRejects(i) ==
    /\ i \in 1..Len(ops)
    /\ ops' = RemoveAt(ops, i)
    /\ last' = [kind |-> "api", api |-> ops[i].api, requests |-> ops[i].requests,
                fetched |-> FALSE, response |-> Response(500, ""),
                result |-> [threw |-> TRUE, message |-> "Failed to fetch",
                            json |-> FALSE],
                value |-> Null]
    /\ UNCHANGED apiFixed

NextApi ==
    \/ \E api \in ApiCalls: Api_call(api)
    \/ \E i \in 1..MaxCalls, response \in Responses: Api_respond(i, response)
    \/ \E i \in 1..MaxCalls: Api_fetchRejects(i)

SpecApi == InitAnalytics /\ [][NextApi]_vars

\* C22: a call that got a response ends in exactly one way: on a non-2xx
\* status it fails with the body text, or the status text when the body is
\* empty, and no JSON parse; on 204 it returns null with no parse; on any
\* other 2xx it returns the parsed JSON body; and every call has issued
\* exactly one request when it ends
C22_HandleResponse ==
    last.kind = "api" =>
        /\ last.requests = 1
        /\ last.fetched =>
              LET r == last.response
              IN IF r.status \notin 200..299
                 THEN /\ last.result.threw
                      /\ last.result.message =
                            (IF r.body = "" THEN r.statusText ELSE r.body)
                      /\ ~last.result.json
                 ELSE IF r.status = 204
                 THEN /\ ~last.result.threw
                      /\ last.value = Null
                      /\ ~last.result.json
                 ELSE /\ ~last.result.threw
                      /\ last.result.json
                      /\ last.value = JSON_parse(r.body).value

\* a call has failed on a 404 with an empty body, its message the status text
C22_Witness ==
    /\ last.kind = "api"
    /\ last.fetched
    /\ last.response.status = 404
    /\ last.response.body = ""
    /\ last.result.message = "NOT FOUND"

-----------------------------------------------------------------------------
\* Further claims about the API-backed store

\* "YYYY-MM" written out for the months and years of the model
PeriodText(year, month) ==
    (IF year = 2024 THEN "2024" ELSE "2025") \o "-" \o
    <<"01", "02", "03", "04", "05", "06", "07", "08", "09", "10", "11", "12">>[month]

\* C23: addBudget submits period = "YYYY-MM" (month zero-padded) of the
\* submitted year and month, for every month 1..12; when it succeeds the
\* server-returned budget is appended at the end of budgets, every other
\* entry and every other field of the snapshot is unchanged, and the
\* operation ends after its one request (no refresh)
C23_AddBudgetEffect ==
    [][/\ \A m \in 1..12, y \in {2024, 2025}:
            periodStr([month |-> m, year |-> y]) = PeriodText(y, m)
       /\ \A i \in 1..Len(ops'):
            ops'[i].kind = "addBudget" =>
                ops'[i].arg.period = PeriodText(ops'[i].arg.year, ops'[i].arg.month)
       /\ (last'.kind = "addBudget" /\ last'.ok) =>
            /\ budgets' = Append(budgets, last'.resp1.entity)
            /\ [Snapshot EXCEPT !.budgets = <<>>]' = [Snapshot EXCEPT !.budgets = <<>>]
            /\ last'.phase = "got1"
            /\ last'.resp2 = NoResp
            /\ \A i \in 1..Len(ops'):
                 \E j \in 1..Len(ops): ops'[i] = ops[j]
    ]_vars

\* addBudget has succeeded on a list that already held a budget
C23_Witness ==
    /\ last.kind = "addBudget"
    /\ last.ok
    /\ Len(budgets) >= 2
    /\ budgets[Len(budgets)] = last.resp1.entity

\* C24: once the active budget period differs from the one the provider
\* mounted with, no request is in flight and no failure is recorded, every
\* budget of the local list belongs to the active period
C24_BudgetsOfActivePeriod ==
    (currentBudgetPeriod # today /\ ops = <<>> /\ error = Null) =>
        \A k \in 1..Len(budgets): SamePeriod(budgets[k], currentBudgetPeriod)

\* C25: once no operation is in flight and no failure is recorded, the ids
\* of the local transactions are the ids of the server's transactions
C25_TransactionIdsMatchServer ==
    (ops = <<>> /\ error = Null) => Ids(transactions) = Ids(srvTransactions)

-----------------------------------------------------------------------------
\* Contributions only: the provider mounts, and the user does nothing but
\* open the contribute dialog and submit contributions; every request
\* succeeds. The backend starts with an available balance of 2.

InitServerFunded ==
    /\ srvTransactions =
         << [id |-> 2, amount |-> 1, category |-> "Food & Drinks", type |-> "expense"],
            [id |-> 1, amount |-> 4, category |-> "Salary", type |-> "income"] >>
    /\ srvBudgets = <<>>
    /\ srvGoals = << [id |-> 4, targetAmount |-> 5, currentAmount |-> 1] >>
    /\ srvNextId = 5

InitContribute ==
    /\ today = Dec2024
    /\ InitServerFunded
    /\ InitStore
    /\ InitUi
    /\ fuel = MaxOps
    /\ last = NoLast
    /\ LocalIdle

\* handleContribute, with the history of what it accepted
Contribute_observed(contributionAmount) ==
    LET amount == parseFloat(contributionAmount)
        accepted == ~amount.nan /\ amount.val > 0 /\ amount.val <= availableBalance
    IN  /\ SavingsGoals_handleContribute(contributionAmount)
        /\ contributed' =
             IF ~accepted THEN contributed
             ELSE [count |-> contributed.count + 1,
                   sum |-> contributed.sum + amount.val,
                   balanceBefore |-> IF contributed.count = 0 THEN availableBalance
                                     ELSE contributed.balanceBefore,
                   goalBefore |-> IF contributed.count = 0
                                  THEN selectedGoal.currentAmount
                                  ELSE contributed.goalBefore]

NextContribute ==
    \/ \E i \in 1..Len(ops): ServerAnswer(i)
    \/ \E i \in 1..Len(ops): fetchAllData_resolved(i)
    \/ \E i \in 1..Len(ops): updateSavingsGoal_updated(i)
    \/ \E i \in 1..Len(ops): updateSavingsGoal_refreshed(i)
    \/ \E k \in 1..Len(savingsGoals): SavingsGoals_handleOpenContribute(savingsGoals[k])
    \/ \E a \in ContributionInputs: Contribute_observed(a)

SpecContribute == InitContribute /\ [][NextContribute]_vars

\* C26: the contributions handleContribute has accepted sum to no more than
\* the available balance there was before the first of them
C26_ContributionsWithinBalance ==
    contributed.count >= 1 => contributed.sum <= contributed.balanceBefore

\* C27: once every updateSavingsGoal has completed, the goal's currentAmount,
\* on the server and in the local list, is its amount before the first
\* accepted contribution plus the sum of the accepted contributions
C27_NoContributionLost ==
    (contributed.count >= 1 /\ ops = <<>>) =>
        /\ srvGoals[1].currentAmount = contributed.goalBefore + contributed.sum
        /\ savingsGoals[1].currentAmount = contributed.goalBefore + contributed.sum

-----------------------------------------------------------------------------
\* Dashboard: the expense distribution of the pie chart

MaxDashboardTxns == 5

\* the reducer of Dashboard's expensesByCategory: acc.find by category, then
\* existingCategory.value += amount, or acc.push({category, value})
RECURSIVE Dashboard_expensesByCategory_reduce(_, _)
Dashboard_expensesByCategory_reduce(acc, txs) ==
    IF txs = <<>> THEN acc
    ELSE LET transaction == Head(txs)
             found == {k \in 1..Len(acc) : acc[k].category = transaction.category}
             existingCategory == CHOOSE k \in found : \A j \in found : k <= j
         IN Dashboard_expensesByCategory_reduce(
                IF found # {}
                THEN [acc EXCEPT ![existingCategory].value = @ + transaction.amount]
                ELSE Append(acc, [category |-> transaction.category,
                                  value |-> transaction.amount]),
                Tail(txs))

\* const expensesByCategory = transactions.filter(...).reduce(..., [])
Dashboard_expensesByCategory(txs) ==
    Dashboard_expensesByCategory_reduce(
        <<>>, SelectSeq(txs, LAMBDA t: t.type = "expense"))

\* Array.prototype.slice(start, end) with 0 <= start, on a sequence
slice(s, start, end) ==
    SubSeq(s, start + 1, IF end < Len(s) THEN end ELSE Len(s))

\* const topExpenses = [...expensesByCategory].sort(...).slice(0, 4), then
\* if (expensesByCategory.length > 4) { otherExpenses = expensesByCategory
\* .slice(4).reduce(...); if (otherExpenses > 0) topExpenses.push(Other) }
Dashboard_topExpenses(byCategory) ==
    LET order == DescendingOrder(Len(byCategory),
                     [i, j \in 1..Len(byCategory) |->
                        byCategory[i].value > byCategory[j].value])
        sorted == [p \in 1..Len(byCategory) |-> byCategory[order[p]]]
        top == slice(sorted, 0, 4)
        rest == slice(byCategory, 4, Len(byCategory))
        otherExpenses == SeqSum([k \in 1..Len(rest) |-> rest[k].value])
    IN  IF Len(byCategory) > 4 /\ otherExpenses > 0
        THEN Append(top, [category |-> "Other", value |-> otherExpenses])
        ELSE top

\* what the store can hand the Dashboard: expenses of 1 or 2 in five
\* categories, and an income
DashboardTransactionInputs ==
    {[amount |-> a, category |-> c, type |-> "expense"] :
        a \in {1, 2},
        c \in {"Food & Drinks", "Bills", "Shopping", "Transport", "Health"}}
    \cup {[amount |-> 3, category |-> "Salary", type |-> "income"]}

\* the store hands the Dashboard a transactions list and its totals
Dashboard_transactionsChanged(t) ==
    /\ Len(transactions) < MaxDashboardTxns
    /\ transactions' = Append(transactions, t)
    /\ totalIncome' = IF t.type = "income" THEN totalIncome + t.amount ELSE totalIncome
    /\ totalExpenses' =
          IF t.type = "expense" THEN totalExpenses + t.amount ELSE totalExpenses
    /\ availableBalance' = totalIncome' - totalExpenses' - totalSavings
    /\ last' = NoLast
    /\ UNCHANGED <<budgets, analyticsFixed>>

\* a render of Dashboard
Dashboard_render ==
    /\ last' = [kind |-> "Dashboard",
                expensesByCategory |-> Dashboard_expensesByCategory(transactions),
                topExpenses |->
                    Dashboard_topExpenses(Dashboard_expensesByCategory(transactions))]
    /\ UNCHANGED <<transactions, budgets, totalIncome, totalExpenses,
                   availableBalance, analyticsFixed>>

NextDashboard ==
    \/ \E t \in DashboardTransactionInputs: Dashboard_transactionsChanged(t)
    \/ Dashboard_render

SpecDashboard == InitAnalytics /\ [][NextDashboard]_vars

\* the total of the expenses of category c in the transaction list
CategoryTotal(c) ==
    LET of == SelectSeq(transactions, LAMBDA t: t.type = "expense" /\ t.category = c)
    IN SeqSum(Amounts(of))

\* the categories the chart shows by name
ShownCategories ==
    {last.topExpenses[k].category : k \in 1..Len(last.topExpenses)} \ {"Other"}

ExpenseCategories ==
    {transactions[k].category :
        k \in {j \in 1..Len(transactions) : transactions[j].type = "expense"}}

\* C28: the entries the Dashboard chart displays sum to the total of all
\* expense amounts, and with more than four expense categories the "Other"
\* entry is the sum of the totals of the categories not displayed by name
C28_DistributionSumsToTotal ==
    last.kind = "Dashboard" =>
        /\ SeqSum([k \in 1..Len(last.topExpenses) |-> last.topExpenses[k].value])
             = SeqSum(Amounts(SelectSeq(transactions, LAMBDA t: t.type = "expense")))
        /\ Cardinality(ExpenseCategories) > 4 =>
             \E k \in 1..Len(last.topExpenses) :
                /\ last.topExpenses[k].category = "Other"
                /\ last.topExpenses[k].value =
                     SumValues([c \in ExpenseCategories \ ShownCategories |->
                                   CategoryTotal(c)])

-----------------------------------------------------------------------------
\* Identifiers of the localStorage-backed store

\* no two elements of the list share an id
UniqueIds(s) == \A i, j \in 1..Len(s) : s[i].id = s[j].id => i = j

\* C29: in the localStorage-backed store no two transactions, no two budgets
\* and no two savings goals share an id, and a deleteTransaction of a listed
\* id removes exactly one transaction
C29_LocalIdsUnique ==
    /\ UniqueIds(data.transactions)
    /\ UniqueIds(data.budgets)
    /\ UniqueIds(data.savingsGoals)
    /\ (/\ last.kind = "local.deleteTransaction"
        /\ last.arg.id \in Ids(last.before.transactions)) =>
          Len(data.transactions) = Len(last.before.transactions) - 1

-----------------------------------------------------------------------------
\* The error field of the API-backed store

\* C30: when a store operation (a load or a mutation) has just completed
\* successfully and no other operation was in flight, so none failed, between
\* its start and its end, error is null
C30_ErrorIsLatestOutcome ==
    (last.kind \in Mutations \cup {"load"} /\ last.ok /\ last.alone)
        => error = Null

=============================================================================
